---- MODULE Spec2Model ----
(***************************************************************************)
(* Verification model of the deep-research agent's orchestration core:     *)
(*   - the lead orchestrator's analyze -> plan -> fan-out -> synthesize     *)
(*     pipeline (agent/orchestrator.py),                                    *)
(*   - the per-worker ReAct loop (agent/react.py, agent/worker.py),         *)
(*   - the versioned session store and the continue / expand / recompile    *)
(*     commands (obsidian/writer.py, obsidian/loader.py, repl/commands.py,  *)
(*     repl/session_manager.py, cli.py).                                    *)
(* and, part by part, the text form of a session, the plan parser, the     *)
(* state file and the vault listing of the REPL, the interview of the      *)
(* storm demo and the progress sink.  The specifications share the         *)
(* variables; each keeps the parts it does not run at their idle values.   *)
(***************************************************************************)
EXTENDS Integers, Sequences, FiniteSets, TLC

VARIABLES
    \* ---- orchestrator run (LeadResearcher.research) ----
    node,            \* graph node about to run
    outcome,         \* "running" | "returned" | "raised"
    raisedBy,        \* which step's exception ended research()
    analysisCalls,   \* LLM calls made by _analyze_query
    analysisResp,    \* the response the analysis call got
    complexity_score,\* state["complexity_score"], in hundredths
    num_workers,     \* _create_plan's num_workers, 0 before the plan step
    planCalls,       \* LLM calls made by _create_plan
    planLog,         \* per plan call: was the response a valid task array
    last_error,      \* _create_plan's last_error category
    errorsRaised,    \* exceptions that left research()
    sub_tasks,       \* state["sub_tasks"]
    wpc,             \* position of each worker node task
    content,         \* WorkerResult.content of each worker
    ret,             \* value returned by each worker node task
    worker_results,  \* state["worker_results"] (reducer: add)
    synthCalls,      \* LLM calls made by _synthesize_results
    synthInput,      \* summaries put in the synthesis prompt
    report,          \* state["report"]
    sources,         \* state["sources"]
    metadata,        \* the metadata of the result research() returns
    lead_prompt_tokens,     \* self.lead_prompt_tokens
    lead_completion_tokens, \* self.lead_completion_tokens
    \* ---- one worker's ReAct loop (WorkerAgent.execute, ReactAgent) ----
    wk,              \* position of the worker: created, thinking, acting, done
    max_iterations,  \* ReactAgent.max_iterations
    iterations,      \* ReactAgent.iterations
    messages,        \* ReactAgent.messages, by kind of message
    tokens_used,     \* ReactAgent.tokens_used
    visited_urls,    \* ReactAgent.visited_urls
    react_iterations,\* ReactAgent.react_iterations: number, tool calls
    pending,         \* tool calls of the current response not yet executed
    full_status,     \* WorkerAgent.full_context.status
    full_final_output, \* WorkerAgent.full_context.final_output
    full_error,      \* WorkerAgent.full_context.error, "none" for None
    worker_result,   \* the WorkerResult that execute returned
    llmCalls,        \* history: calls of self.llm.ainvoke
    fetchedOk,       \* history: URLs whose fetch returned success=true
    fetchFailed,     \* history: URLs whose fetch failed or raised
    mentioned,       \* history: URLs named in the LLM's text
    answerEmitted,   \* history: a response held the answer delimiter
    llmFailed,       \* history: a call of the LLM raised
    \* ---- the vault and the versioning commands ----
    vault,           \* the files of the vault, per session id
    active_session,  \* SessionManager.active_session
    repl_state,      \* the state file of ReplState
    lastOp,          \* history: the last continue / expand / recompile
    produced,        \* history: per session id, the versions the commands yielded
    \* ---- one session written to a vault and loaded back ----
    rt_phase,        \* "new", "written", "loaded"; "idle" in the other specs
    rt_session,      \* the ResearchSession given to write_session
    rt_vault,        \* the text of session.md and of the worker notes
    rt_loaded,       \* what load_session returned, or that it raised
    \* ---- the plan parser on the text of a response ----
    ps_json,         \* the JSON array J of the sub-tasks
    ps_raw,          \* the response that carries J
    ps_parsed,       \* what _parse_sub_tasks made of the response
    ps_alone,        \* what _parse_sub_tasks made of J alone
    \* ---- the state file of the REPL (ReplState, SessionManager) ----
    sf_file,         \* the state file: missing, or what it holds
    sf_active,       \* SessionManager.active_session
    sf_loaded,       \* the last call of load_last_session: file read, result
    sf_last,         \* history: the last call, "set" or "clear"
    sf_lastSet,      \* history: the session given to the last set
    \* ---- the sessions of a vault listed (SessionLoader.list_sessions) ----
    ls_entries,      \* the entries of the vault directory, sorted by name
    ls_listed,       \* what list_sessions returned, or that it raised
    \* ---- one interview of the STORM demo (interview_graph) ----
    iv_node,         \* the node or router about to run
    iv_messages,     \* state["messages"]
    iv_max_turns,    \* state["max_turns"]
    iv_turn_count,   \* state["turn_count"], None when the key is absent
    iv_route,        \* what should_continue_interview returned last
    iv_asked,        \* history: questions ask_question asked
    \* ---- the progress callbacks of a run (self.progress) ----
    callbacks,       \* history: per worker id, the callbacks received
    \* ---- one LiveProgress sink and the threads that call it ----
    sk_pc,           \* position of each thread in its callback
    sk_call,         \* the callback each thread delivers
    sk_done,         \* callbacks each thread has delivered
    sk_owner,        \* self._lock: 0 free, else the thread that holds it
    sk_workers,      \* self.workers
    sk_log,          \* self.activity_log, as the worker ids of its entries
    sk_local,        \* current_count of on_worker_tool_use on each thread
    sk_received,     \* history: tool-use callbacks per worker since its start
    sk_snap          \* history: the last copies _render took on each thread

\* What only the plan step, the LLM calls and the end of research() write.
resultVars == <<sources, metadata>>

leadUsage == <<lead_prompt_tokens, lead_completion_tokens>>

runVars == <<node, outcome, raisedBy, analysisCalls, analysisResp,
             complexity_score, num_workers, planCalls, planLog, last_error,
             errorsRaised, sub_tasks,
             wpc, content, ret, worker_results, synthCalls, synthInput, report,
             resultVars, leadUsage>>

workerVars == <<wk, max_iterations, iterations, messages, tokens_used,
                visited_urls, react_iterations, pending, full_status,
                full_final_output, full_error,
                worker_result, llmCalls, fetchedOk, fetchFailed, mentioned,
                answerEmitted, llmFailed>>

sessVars == <<vault, active_session, repl_state, lastOp, produced>>

textVars == <<rt_phase, rt_session, rt_vault, rt_loaded>>

parseVars == <<ps_json, ps_raw, ps_parsed, ps_alone>>

fileVars == <<sf_file, sf_active, sf_loaded, sf_last, sf_lastSet>>

listVars == <<ls_entries, ls_listed>>

stormVars == <<iv_node, iv_messages, iv_max_turns, iv_turn_count, iv_route,
               iv_asked>>

progressVars == <<callbacks>>

sinkVars == <<sk_pc, sk_call, sk_done, sk_owner, sk_workers, sk_log, sk_local,
              sk_received, sk_snap>>

vars == <<runVars, workerVars, sessVars, textVars, parseVars, fileVars,
          listVars, stormVars, progressVars, sinkVars>>

(***************************************************************************)
(* Bounds of the model.                                                    *)
(***************************************************************************)
MaxTasks == 3      \* longest plan the planning LLM returns
MaxIter == 3       \* largest max_iterations a ReactAgent is built with
MaxEntries == 3    \* most entries session_* of a vault directory
MaxCallbacks == 3  \* most callbacks the threads deliver to the sink
MaxToolCalls == 2  \* most tool calls in one LLM response
MaxVersion == 3    \* highest session version the commands go to
MaxOps == 3        \* most versions the commands yield in one behaviour

(***************************************************************************)
(* Program constants.                                                      *)
(***************************************************************************)
max_retries == 3   \* _create_plan
ActivityLogLimit == 10 \* LiveProgress._log_activity
max_messages == 20 \* ReactAgent._step
MAX_CONV_TURNS == 3 \* storm_agent.py
worker_max_iterations == 15 \* WorkerAgent.__init__: ReactAgent(max_iterations=15)
max_tokens == 50000 \* WorkerAgent.__init__: ReactAgent(max_tokens=50_000)

Range(s) == {s[i] : i \in 1..Len(s)}

(***************************************************************************)
(*                    PART 1: THE ORCHESTRATOR RUN                         *)
(***************************************************************************)

\* Complexity scores the analysis LLM reports in a run, in hundredths
\* (0.00 .. 1.00).
ComplexityScores == {0, 30, 60}

\* Every complexity in [0, 1], in hundredths.
Complexities == 0..100

\* usage_metadata of an LLM response: present with its two counts, or absent,
\* and then count_tokens(content) stands in for the completion.
CallUsage == [has |-> TRUE, input_tokens |-> 100, output_tokens |-> 10,
              content_tokens |-> 10]

LeadUsages ==
    {CallUsage,
     [has |-> TRUE, input_tokens |-> 0, output_tokens |-> 0, content_tokens |-> 7],
     [has |-> FALSE, input_tokens |-> 0, output_tokens |-> 0, content_tokens |-> 7]}

\* _record_lead_usage
RecordLeadUsage(u) ==
    IF u.has
    THEN /\ lead_prompt_tokens' = lead_prompt_tokens + u.input_tokens
         /\ lead_completion_tokens' = lead_completion_tokens + u.output_tokens
    ELSE /\ lead_prompt_tokens' = lead_prompt_tokens
         /\ lead_completion_tokens' = lead_completion_tokens + u.content_tokens

AllFields == {"complexity", "specificity", "domains", "multi_step"}

\* What self.llm.ainvoke(prompt) gives _analyze_query: an exception, or a
\* message whose content is blank, is no JSON object, or is a JSON object
\* holding some of QueryAnalysis' fields.
AnalysisResponses ==
    {[t |-> "raise", shape |-> "none", fields |-> {}, complexity |-> 0]}
    \cup {[t |-> "content", shape |-> sh, fields |-> {}, complexity |-> 0] :
            sh \in {"blank", "garbage", "array"}}
    \cup {[t |-> "content", shape |-> "object", fields |-> f, complexity |-> c] :
            f \in {AllFields, AllFields \ {"complexity"}, AllFields \ {"multi_step"}},
            c \in ComplexityScores}

NoAnalysis == [t |-> "none", shape |-> "none", fields |-> {}, complexity |-> 0]

\* QueryAnalysis.model_validate_json: every declared field is required.
ParseQueryAnalysis(resp) ==
    IF resp.shape = "object" /\ AllFields \subseteq resp.fields
    THEN [ok |-> TRUE, complexity |-> resp.complexity]
    ELSE [ok |-> FALSE, complexity |-> 0]

\* A lenient analysis that falls back to complexity 0.0 on a bad response.
AnalyzeQueryLenient(resp) ==
    IF resp.t = "raise" THEN [ok |-> FALSE, complexity |-> 0]
    ELSE [ok |-> TRUE, complexity |-> ParseQueryAnalysis(resp).complexity]

\* _analyze_query: one LLM call; an exception of the call, an empty response
\* and a response that does not validate all raise.
AnalyzeQueryResult(resp) ==
    IF resp.t = "raise" THEN [ok |-> FALSE, complexity |-> 0]
    ELSE IF resp.shape = "blank" THEN [ok |-> FALSE, complexity |-> 0]
    ELSE ParseQueryAnalysis(resp)

AnalyzeQuery ==
    /\ node = "analyze" /\ outcome = "running"
    /\ \E resp \in AnalysisResponses :
        LET r == AnalyzeQueryResult(resp) IN
        /\ analysisCalls' = analysisCalls + 1
        /\ analysisResp' = resp
        /\ IF resp.t = "raise" THEN UNCHANGED leadUsage
           ELSE RecordLeadUsage(CallUsage)
        /\ IF r.ok
           THEN /\ complexity_score' = r.complexity
                /\ node' = "plan"
                /\ UNCHANGED <<outcome, raisedBy, errorsRaised>>
           ELSE /\ node' = "end"
                /\ outcome' = "raised"
                /\ raisedBy' = "analyze"
                /\ errorsRaised' = errorsRaised + 1
                /\ UNCHANGED complexity_score
    /\ UNCHANGED <<num_workers, planCalls, planLog, last_error, sub_tasks, wpc,
                   content, ret, worker_results, synthCalls, synthInput, report,
                   resultVars>>
    /\ UNCHANGED <<workerVars, sessVars, textVars, parseVars, fileVars, listVars, stormVars, progressVars, sinkVars>>

\* Thresholds that belong to the lower count.
NumWorkersInclusive(c) == IF c <= 30 THEN 1 ELSE (IF c <= 60 THEN 3 ELSE 5)

\* num_workers = 1 if complexity < 0.3 else (3 if complexity < 0.6 else 5)
NumWorkers(c) == IF c < 30 THEN 1 ELSE (IF c < 60 THEN 3 ELSE 5)

\* A plan the LLM returns as a JSON array: n entries with ids task_1..task_n,
\* or, for a plan shorter than the longest, the same with the last id repeating
\* the first.
PlanTasks(n, dup) ==
    [k \in 1..n |-> [id |-> IF dup /\ k = n THEN 1 ELSE k, valid |-> TRUE]]

PlanArrays ==
    {PlanTasks(n, FALSE) : n \in 0..MaxTasks}
    \cup {PlanTasks(n, TRUE) : n \in 2..(MaxTasks - 1)}
    \cup {<<[id |-> 1, valid |-> FALSE]>>}

\* What self.llm.ainvoke(prompt) gives _create_plan.
PlanResponses ==
    {[t |-> "raise", exc |-> e, shape |-> "none", tasks |-> <<>>] :
        e \in {"http", "json_decode", "other"}}
    \cup {[t |-> "content", exc |-> "none", shape |-> sh, tasks |-> <<>>] :
        sh \in {"blank", "garbage", "object"}}
    \cup {[t |-> "content", exc |-> "none", shape |-> "array", tasks |-> a] :
        a \in PlanArrays}

\* The response is a JSON array whose entries all are sub-tasks.
ValidTaskArray(resp) ==
    /\ resp.t = "content"
    /\ resp.shape = "array"
    /\ \A k \in 1..Len(resp.tasks) : resp.tasks[k].valid

\* _parse_sub_tasks: json.loads, isinstance(data, list), SubTask.model_validate
\* of every item; each failure is a ValueError, the JSONDecodeError of
\* json.loads included, which is caught and raised again as a ValueError.
ParseSubTasks(resp) ==
    IF resp.shape = "garbage"
    THEN [ok |-> FALSE, tasks |-> <<>>, error |-> "invalid_json"]
    ELSE IF resp.shape # "array"
    THEN [ok |-> FALSE, tasks |-> <<>>, error |-> "not_array"]
    ELSE IF \E k \in 1..Len(resp.tasks) : ~resp.tasks[k].valid
         THEN [ok |-> FALSE, tasks |-> <<>>, error |-> "invalid_entry"]
    ELSE [ok |-> TRUE, error |-> "none",
          tasks |-> [k \in 1..Len(resp.tasks) |-> [id |-> resp.tasks[k].id]]]

\* One pass through the body of _create_plan's retry loop: the LLM call, the
\* empty-response check and the parse, with the except clause that catches
\* each failure. category is the exception kept in last_error: the three that
\* llm.ainvoke raises, and the ValueErrors of the body by their message.
PlanAttemptResult(resp) ==
    IF resp.t = "raise" THEN [ok |-> FALSE, tasks |-> <<>>, category |-> resp.exc]
    ELSE IF resp.shape = "blank"
         THEN [ok |-> FALSE, tasks |-> <<>>, category |-> "empty_response"]
    ELSE LET p == ParseSubTasks(resp) IN
         IF p.ok THEN [ok |-> TRUE, tasks |-> p.tasks, category |-> "none"]
         ELSE [ok |-> FALSE, tasks |-> <<>>, category |-> p.error]

\* isinstance(last_error, json.JSONDecodeError): only an exception that
\* llm.ainvoke raised can be one, the parser's own is a plain ValueError.
IsJSONDecodeError(e) == e = "json_decode"

\* str(last_error), by its leading words.
ErrorText(e) ==
    CASE e = "empty_response" -> "LLM returned empty response"
      [] e = "invalid_json" -> "Invalid sub-task JSON"
      [] e = "not_array" -> "Expected JSON array"
      [] e = "invalid_entry" -> "Invalid sub-task entry"
      [] e = "json_decode" -> "Expecting value"
      [] e = "http" -> "HTTP error"
      [] OTHER -> "error"

\* The message of the ValueError that ends _create_plan after the last
\* attempt, as the sequence of its parts.
PlanErrorMessage(e) ==
    IF IsJSONDecodeError(e)
    THEN <<"Failed to create plan after 3 attempts.",
           "The API returned malformed JSON. This usually means:",
           "1. Invalid or expired OPENROUTER_API_KEY",
           "2. Unsupported model name",
           "3. OpenRouter API is returning an error page (HTML instead of JSON)",
           "Error:", ErrorText(e)>>
    ELSE <<"Failed to create plan after 3 attempts.",
           "Last error:", ErrorText(e)>>

\* A retry loop that runs once more than max_retries.
PlanLoopOneMore(attempt) == attempt < max_retries

\* for attempt in range(max_retries): after a failed attempt the loop goes on
\* iff the next index is still in range.
PlanLoopContinues(attempt) == attempt + 1 < max_retries

CreatePlanAttempt ==
    /\ node = "plan" /\ outcome = "running"
    /\ \E resp \in PlanResponses :
        LET r == PlanAttemptResult(resp)
            attempt == planCalls
        IN
        /\ planCalls' = planCalls + 1
        /\ planLog' = Append(planLog, ValidTaskArray(resp))
        /\ num_workers' = NumWorkers(complexity_score)
        /\ IF resp.t = "raise" THEN UNCHANGED leadUsage
           ELSE RecordLeadUsage(CallUsage)
        /\ IF r.ok
           THEN /\ sub_tasks' = r.tasks
                /\ node' = "spawn"
                /\ last_error' = "none"
                /\ UNCHANGED <<outcome, raisedBy, errorsRaised>>
           ELSE IF PlanLoopContinues(attempt)
           THEN /\ last_error' = r.category
                /\ UNCHANGED <<node, sub_tasks, outcome, raisedBy, errorsRaised>>
           ELSE /\ last_error' = r.category
                /\ node' = "end"
                /\ outcome' = "raised"
                /\ raisedBy' = "plan"
                /\ errorsRaised' = errorsRaised + 1
                /\ UNCHANGED sub_tasks
    /\ UNCHANGED <<analysisCalls, analysisResp, complexity_score, wpc, content,
                   ret, worker_results, synthCalls, synthInput, report,
                   resultVars>>
    /\ UNCHANGED <<workerVars, sessVars, textVars, parseVars, fileVars, listVars, stormVars, progressVars, sinkVars>>

\* ModelPricing of the one supported model, in cents per million tokens.
input_price_per_million == 9
output_price_per_million == 40

\* ModelPricing.estimate_cost, in 10^-8 dollars: (tokens / 1_000_000) * price.
EstimateCost(prompt, completion) ==
    [prompt_tokens |-> prompt, completion_tokens |-> completion,
     input_cost |-> prompt * input_price_per_million,
     output_cost |-> completion * output_price_per_million]

\* A metadata without token and cost entries.
NoUsage == [prompt_tokens |-> 0, completion_tokens |-> 0,
            input_cost |-> 0, output_cost |-> 0]

\* An Optional[float]: None, or the value.
None == <<>>
Some(v) == <<v>>
OrZero(o) == IF o = None THEN 0 ELSE o[1]

\* value or None
OrNone(v) == IF v = 0 THEN None ELSE Some(v)

\* dict.update
Update(old, new) ==
    [k \in DOMAIN old \cup DOMAIN new |-> IF k \in DOMAIN new THEN new[k] ELSE old[k]]

\* Totals of the loop over worker_results in _attach_cost_metadata.
RECURSIVE WorkerTotals(_)
WorkerTotals(results) ==
    IF results = <<>> THEN NoUsage
    ELSE LET w == Head(results)
             t == WorkerTotals(Tail(results))
         IN [prompt_tokens |-> w.prompt_tokens + t.prompt_tokens,
             completion_tokens |-> w.completion_tokens + t.completion_tokens,
             input_cost |-> w.input_cost + t.input_cost,
             output_cost |-> w.output_cost + t.output_cost]

\* A total that leaves the workers' cost out.
TotalCostLeadOnly(lead_total_cost, worker_total_cost) == OrZero(lead_total_cost)

\* total_cost = (lead_total_cost or 0.0) + (worker_total_cost or 0.0)
TotalCost(lead_total_cost, worker_total_cost) ==
    OrZero(lead_total_cost) + OrZero(worker_total_cost)

\* _attach_cost_metadata: the metadata of the returned result.  self.pricing
\* is set by the constructor for every model it accepts, so lead_breakdown is
\* never None and total_cost is always a number.
AttachCostMetadata(meta, results, lead_prompt, lead_completion) ==
    LET w == WorkerTotals(results)
        lead_breakdown == EstimateCost(lead_prompt, lead_completion)
        lead_total_cost == Some(lead_breakdown.input_cost + lead_breakdown.output_cost)
        worker_total_cost_value == w.input_cost + w.output_cost
        worker_total_cost == IF worker_total_cost_value > 0
                             THEN Some(worker_total_cost_value) ELSE None
    IN Update(meta,
         [model |-> "model",
          prompt_tokens |-> lead_prompt + w.prompt_tokens,
          completion_tokens |-> lead_completion + w.completion_tokens,
          pricing |-> "pricing",
          cost |-> [lead |-> [prompt_tokens |-> lead_breakdown.prompt_tokens,
                              completion_tokens |-> lead_breakdown.completion_tokens,
                              input_cost |-> lead_breakdown.input_cost,
                              output_cost |-> lead_breakdown.output_cost,
                              total_cost |-> OrZero(lead_total_cost)],
                    workers |-> [prompt_tokens |-> w.prompt_tokens,
                                 completion_tokens |-> w.completion_tokens,
                                 input_cost |-> OrNone(w.input_cost),
                                 output_cost |-> OrNone(w.output_cost),
                                 total_cost |-> worker_total_cost],
                    total_cost |-> TotalCost(lead_total_cost, worker_total_cost)]])

Workers == 1..Len(sub_tasks)

\* _spawn_workers: one Send("worker", {"task": task}) per sub-task.  With no
\* sub-task nothing is sent, no node is scheduled and the graph ends.
SpawnWorkers ==
    /\ node = "spawn" /\ outcome = "running"
    /\ IF Len(sub_tasks) = 0
       THEN /\ node' = "end"
            /\ outcome' = "returned"
            /\ metadata' = AttachCostMetadata(metadata, worker_results,
                                              lead_prompt_tokens,
                                              lead_completion_tokens)
            /\ UNCHANGED wpc
       ELSE /\ node' = "workers"
            /\ wpc' = [i \in 1..MaxTasks |->
                          IF i <= Len(sub_tasks) THEN "spawned" ELSE "idle"]
            /\ UNCHANGED <<outcome, metadata>>
    /\ UNCHANGED <<raisedBy, analysisCalls, analysisResp, complexity_score,
                   num_workers, planCalls, planLog, last_error, errorsRaised,
                   sub_tasks, content, ret, worker_results, synthCalls,
                   synthInput, report, sources, leadUsage>>
    /\ UNCHANGED <<workerVars, sessVars, textVars, parseVars, fileVars, listVars, stormVars, progressVars, sinkVars>>

\* The dict a worker node returns in worker_results: task_id, summary, sources
\* and, of its metadata, the error and what _attach_cost_metadata reads.  A key
\* the metadata lacks is read as 0 there (metadata.get(key) or 0).
ResultEntry(task_id, summary, error, srcs, use) ==
    [task_id |-> task_id, summary |-> summary, error |-> error,
     sources |-> srcs,
     prompt_tokens |-> use.prompt_tokens,
     completion_tokens |-> use.completion_tokens,
     input_cost |-> use.input_cost,
     output_cost |-> use.output_cost]

NoResult ==
    ResultEntry(0, [of |-> 0, text |-> "none", verbatim |-> FALSE], "none", <<>>, NoUsage)

\* A worker node that lets the exception escape.
WorkerExceptionEscapes(i, kind) ==
    [raised |-> TRUE, result |-> NoResult]

\* _worker_execution's except clauses: TimeoutError and every other Exception
\* become a failure-shaped result of the node.
WorkerExceptionResult(i, kind) ==
    [raised |-> FALSE,
     result |-> ResultEntry(sub_tasks[i].id,
                            [of |-> i,
                             text |-> IF kind = "timeout" THEN "timed_out"
                                      ELSE "worker_failed",
                             verbatim |-> FALSE],
                            kind, <<>>, NoUsage)]

\* self.progress receives the callbacks of one step of the node of worker i,
\* under the worker id, which is the id of the sub-task.
Progress(i, called) ==
    callbacks' = [callbacks EXCEPT ![sub_tasks[i].id] = @ \o called]

\* The worker node ends with an exception of the given kind, after the
\* callbacks its step has made; the except clauses call on_worker_error.
WorkerEndsWithException(i, kind, called) ==
    LET h == WorkerExceptionResult(i, kind) IN
    IF h.raised
    THEN /\ node' = "end"
         /\ outcome' = "raised"
         /\ raisedBy' = "worker"
         /\ errorsRaised' = errorsRaised + 1
         /\ Progress(i, called)
         /\ UNCHANGED <<wpc, ret>>
    ELSE /\ wpc' = [wpc EXCEPT ![i] = "returned"]
         /\ ret' = [ret EXCEPT ![i] = h.result]
         /\ Progress(i, called \o <<"error">>)
         /\ UNCHANGED <<node, outcome, raisedBy, errorsRaised>>

\* _worker_execution up to the awaited worker.execute: on_worker_start, the
\* yield, the two on_worker_tool_use("init") around the construction of the
\* WorkerAgent, which may raise.
WorkerStart(i) ==
    /\ node = "workers" /\ outcome = "running"
    /\ i \in Workers /\ wpc[i] = "spawned"
    /\ \E constructed \in BOOLEAN :
        IF constructed
        THEN /\ wpc' = [wpc EXCEPT ![i] = "executing"]
             /\ Progress(i, <<"start", "tool_use", "tool_use">>)
             /\ UNCHANGED <<node, outcome, raisedBy, errorsRaised, ret>>
        ELSE WorkerEndsWithException(i, "node_error", <<"start", "tool_use">>)
    /\ UNCHANGED <<analysisCalls, analysisResp, complexity_score, num_workers,
                   planCalls, planLog, last_error, sub_tasks, content,
                   worker_results, synthCalls, synthInput, report, resultVars,
                   leadUsage>>
    /\ UNCHANGED <<workerVars, sessVars, textVars, parseVars, fileVars, listVars, stormVars, sinkVars>>

\* WorkerAgent.execute returns: the report of an answered or exhausted ReAct
\* loop, or, when the loop raised, the failure-shaped WorkerResult built by its
\* own except clause.
ExecuteOutcomes == {"answer", "incomplete", "failed"}

WorkerExecuteReturns(i) ==
    /\ node = "workers" /\ outcome = "running"
    /\ i \in Workers /\ wpc[i] = "executing"
    /\ \E k \in ExecuteOutcomes : content' = [content EXCEPT ![i] = k]
    /\ wpc' = [wpc EXCEPT ![i] = "compressing"]
    /\ UNCHANGED <<node, outcome, raisedBy, analysisCalls, analysisResp,
                   complexity_score, num_workers, planCalls, planLog,
                   last_error, errorsRaised, sub_tasks, ret, worker_results,
                   synthCalls, synthInput, report, resultVars, leadUsage>>
    /\ UNCHANGED <<workerVars, sessVars, textVars, parseVars, fileVars, listVars, stormVars, progressVars, sinkVars>>

\* asyncio.wait_for(worker.execute(...), timeout=1800.0) expires.
WorkerTimeout(i) ==
    /\ node = "workers" /\ outcome = "running"
    /\ i \in Workers /\ wpc[i] = "executing"
    /\ WorkerEndsWithException(i, "timeout", <<>>)
    /\ UNCHANGED <<analysisCalls, analysisResp, complexity_score, num_workers,
                   planCalls, planLog, last_error, sub_tasks, content,
                   worker_results, synthCalls, synthInput, report, resultVars,
                   leadUsage>>
    /\ UNCHANGED <<workerVars, sessVars, textVars, parseVars, fileVars, listVars, stormVars, sinkVars>>

\* The sources of the WorkerResult that execute returned: the URLs the ReAct
\* loop visited, sorted, or none when the loop raised.
ExecuteSources(k) ==
    IF k = "answer" THEN <<1, 2>>
    ELSE IF k = "incomplete" THEN <<1>>
    ELSE <<>>

\* The token and cost entries of its metadata: the ReAct loop's counters and
\* _build_cost_metadata, or none of them when the loop raised.
ExecuteUsage(k) ==
    IF k = "answer" THEN EstimateCost(1000, 200)
    ELSE IF k = "incomplete" THEN EstimateCost(3000, 0)
    ELSE NoUsage

\* result.metadata's error field, as WorkerAgent.execute passes it on.
MetadataError(k) ==
    IF k = "incomplete" THEN "max_iterations"
    ELSE IF k = "failed" THEN "exec_error"
    ELSE "none"

\* What self.llm.ainvoke(prompt, max_tokens=max_tokens) gives _compress: an
\* exception, the worker output word for word, or another text about it.
CompressReplies == {"raise", "verbatim", "rewritten"}

\* _compress: the summary is the content of the LLM's response to the prompt
\* "Compress to {max_tokens} tokens, preserving key insights", whatever the
\* length of the worker output.
Compress(i, output, reply) ==
    [of |-> i, text |-> output, verbatim |-> (reply = "verbatim")]

\* _compress followed by the node's return value; the compression LLM call
\* may raise.
WorkerCompress(i) ==
    /\ node = "workers" /\ outcome = "running"
    /\ i \in Workers /\ wpc[i] = "compressing"
    /\ \E reply \in CompressReplies :
        IF reply # "raise"
        THEN /\ wpc' = [wpc EXCEPT ![i] = "returned"]
             /\ ret' = [ret EXCEPT ![i] =
                          ResultEntry(sub_tasks[i].id,
                                      Compress(i, content[i], reply),
                                      MetadataError(content[i]),
                                      ExecuteSources(content[i]),
                                      ExecuteUsage(content[i]))]
             /\ RecordLeadUsage(CallUsage)
             /\ Progress(i, <<"complete">>)
             /\ UNCHANGED <<node, outcome, raisedBy, errorsRaised>>
        ELSE /\ WorkerEndsWithException(i, "node_error", <<>>)
             /\ UNCHANGED leadUsage
    /\ content' = [content EXCEPT ![i] = "none"]
    /\ UNCHANGED <<analysisCalls, analysisResp, complexity_score, num_workers,
                   planCalls, planLog, last_error, sub_tasks, worker_results,
                   synthCalls, synthInput, report, resultVars>>
    /\ UNCHANGED <<workerVars, sessVars, textVars, parseVars, fileVars, listVars, stormVars, sinkVars>>

\* A channel without reducer keeps the last value written.
LastValue(old, new) == new

\* worker_results: Annotated[list[dict], add]
Reducer(old, new) == old \o new

RECURSIVE ApplyWrites(_, _)
ApplyWrites(value, writes) ==
    IF writes = <<>> THEN value
    ELSE ApplyWrites(Reducer(value, Head(writes)), Tail(writes))

\* The end of the workers' superstep: every worker task has returned, and each
\* task's write {"worker_results": [result]} is folded into the channel.
FanIn ==
    /\ node = "workers" /\ outcome = "running"
    /\ \A i \in Workers : wpc[i] = "returned"
    /\ worker_results' =
          ApplyWrites(worker_results, [i \in Workers |-> <<ret[i]>>])
    /\ node' = "synthesize"
    /\ UNCHANGED <<outcome, raisedBy, analysisCalls, analysisResp,
                   complexity_score, num_workers, planCalls, planLog,
                   last_error, errorsRaised, sub_tasks, wpc, content, ret,
                   synthCalls, synthInput, report, resultVars, leadUsage>>
    /\ UNCHANGED <<workerVars, sessVars, textVars, parseVars, fileVars, listVars, stormVars, progressVars, sinkVars>>

\* all_sources: the workers' source lists, one after the other.
RECURSIVE AllSources(_)
AllSources(results) ==
    IF results = <<>> THEN <<>>
    ELSE Head(results).sources \o AllSources(Tail(results))

\* The lists that hold each element of S once.
ListsOf(S) == {q \in [1..Cardinality(S) -> S] : Range(q) = S}

\* sorted(set(all_sources)): the one list in ascending order.
SortedSetToList(all_sources) ==
    {q \in ListsOf(Range(all_sources)) :
        \A a, b \in 1..Len(q) : a < b => q[a] < q[b]}

\* list(set(all_sources)): the elements once each, in the set's iteration
\* order, which the language leaves open.
SetToList(all_sources) == ListsOf(Range(all_sources))

\* _synthesize_results: one LLM call over the summaries of worker_results;
\* its exception is not caught.  research() then attaches the cost metadata
\* to the final state and returns it.
SynthesizeResults ==
    /\ node = "synthesize" /\ outcome = "running"
    /\ synthCalls' = synthCalls + 1
    /\ synthInput' = [k \in 1..Len(worker_results) |-> worker_results[k].summary]
    /\ \E answered \in BOOLEAN :
        IF answered
        THEN /\ \E u \in LeadUsages : RecordLeadUsage(u)
             /\ report' = "report"
             /\ sources' \in SetToList(AllSources(worker_results))
             /\ metadata' = AttachCostMetadata(
                                [workers |-> Len(synthInput'), model |-> "model"],
                                worker_results,
                                lead_prompt_tokens', lead_completion_tokens')
             /\ outcome' = "returned"
             /\ UNCHANGED <<raisedBy, errorsRaised>>
        ELSE /\ outcome' = "raised"
             /\ raisedBy' = "synthesize"
             /\ errorsRaised' = errorsRaised + 1
             /\ UNCHANGED <<report, resultVars, leadUsage>>
    /\ node' = "end"
    /\ UNCHANGED <<analysisCalls, analysisResp, complexity_score, num_workers,
                   planCalls, planLog, last_error, sub_tasks, wpc, content, ret,
                   worker_results>>
    /\ UNCHANGED <<workerVars, sessVars, textVars, parseVars, fileVars, listVars, stormVars, progressVars, sinkVars>>

\* research(): _reset_usage_tracking and the initial ResearchState.
RunAtRest ==
    /\ outcome = "running"
    /\ raisedBy = "none"
    /\ analysisCalls = 0
    /\ analysisResp = NoAnalysis
    /\ complexity_score = 0
    /\ num_workers = 0
    /\ planCalls = 0
    /\ planLog = <<>>
    /\ last_error = "none"
    /\ errorsRaised = 0
    /\ sub_tasks = <<>>
    /\ wpc = [i \in 1..MaxTasks |-> "idle"]
    /\ content = [i \in 1..MaxTasks |-> "none"]
    /\ ret = [i \in 1..MaxTasks |-> NoResult]
    /\ worker_results = <<>>
    /\ synthCalls = 0
    /\ synthInput = <<>>
    /\ report = ""
    /\ sources = <<>>
    /\ metadata = <<>>
    /\ lead_prompt_tokens = 0
    /\ lead_completion_tokens = 0

StartRun == node = "analyze" /\ RunAtRest

\* No run is part of the behaviour (the other specifications).
IdleRun == node = "idle" /\ RunAtRest

\* The state in which the plan node starts: the analysis call has returned an
\* object with complexity c, and its usage is recorded.
AfterAnalysis(c) ==
    /\ node = "plan"
    /\ outcome = "running"
    /\ raisedBy = "none"
    /\ analysisCalls = 1
    /\ analysisResp = [t |-> "content", shape |-> "object", fields |-> AllFields,
                       complexity |-> c]
    /\ complexity_score = c
    /\ num_workers = 0
    /\ planCalls = 0
    /\ planLog = <<>>
    /\ last_error = "none"
    /\ errorsRaised = 0
    /\ sub_tasks = <<>>
    /\ wpc = [i \in 1..MaxTasks |-> "idle"]
    /\ content = [i \in 1..MaxTasks |-> "none"]
    /\ ret = [i \in 1..MaxTasks |-> NoResult]
    /\ worker_results = <<>>
    /\ synthCalls = 0
    /\ synthInput = <<>>
    /\ report = ""
    /\ sources = <<>>
    /\ metadata = <<>>
    /\ lead_prompt_tokens = CallUsage.input_tokens
    /\ lead_completion_tokens = CallUsage.output_tokens

\* The plan node alone, started with any complexity score in [0, 1].
StartPlan == \E c \in Complexities : AfterAnalysis(c)

NextPlan == CreatePlanAttempt

NextRun ==
    \/ AnalyzeQuery
    \/ CreatePlanAttempt
    \/ SpawnWorkers
    \/ \E i \in 1..MaxTasks : WorkerStart(i)
    \/ \E i \in 1..MaxTasks : WorkerExecuteReturns(i)
    \/ \E i \in 1..MaxTasks : WorkerTimeout(i)
    \/ \E i \in 1..MaxTasks : WorkerCompress(i)
    \/ FanIn
    \/ SynthesizeResults

(***************************************************************************)
(*                  PART 2: ONE WORKER'S REACT LOOP                        *)
(***************************************************************************)

\* The URLs of the model; sorted() orders them as the integers are ordered.
Urls == {1, 2}

\* Token usage one LLM response reports (input_tokens + output_tokens).
Usages == {0, 46000}

\* The URL the text of an LLM response names (0: none).
Mentions == {0, 2}

\* sorted(list(self.visited_urls))
RECURSIVE SortedList(_)
SortedList(S) ==
    IF S = {} THEN <<>>
    ELSE LET m == CHOOSE x \in S : \A y \in S : x <= y
         IN <<m>> \o SortedList(S \ {m})

\* What self.llm.ainvoke(self.messages) gives _step: an exception, or a
\* message with or without the answer delimiter, carrying ncalls tool calls,
\* naming at most one URL in its text (0: none), and reporting its usage.
\* unsliceable: the text before the tool calls is shorter than 20 characters
\* and a fetch call's url argument is neither a string nor a list (null, a
\* number), so that args.get("url", "")[:80] raises.  blank: nothing but
\* whitespace stands between the answer delimiters.
LLMResponses ==
    {[t |-> "raise", answer |-> FALSE, ncalls |-> 0, mention |-> 0, usage |-> 0,
      unsliceable |-> FALSE, blank |-> FALSE]}
    \cup {[t |-> "content", answer |-> a, ncalls |-> n, mention |-> m, usage |-> u,
           unsliceable |-> FALSE, blank |-> FALSE] :
            a \in BOOLEAN, n \in 0..MaxToolCalls, m \in Mentions, u \in Usages}
    \cup {[t |-> "content", answer |-> FALSE, ncalls |-> n, mention |-> 0, usage |-> u,
           unsliceable |-> TRUE, blank |-> FALSE] :
            n \in 1..MaxToolCalls, u \in Usages}
    \cup {[t |-> "content", answer |-> TRUE, ncalls |-> 0, mention |-> 0, usage |-> u,
           unsliceable |-> FALSE, blank |-> TRUE] :
            u \in Usages}

\* One tool call of a response with what its execution meets: search or an
\* unknown tool, or fetch of a URL; the tool returns success, returns
\* failure, or raises (caught by the per-call except clause).  The outcome
\* covers the shape of the argument: a list is coerced by the tool to one
\* string (for fetch the first URL) and ends as the string does; any other
\* value is rejected by the tool's argument validation, which raises.
ToolCalls ==
    {[name |-> n, url |-> 0, outcome |-> o] :
        n \in {"search", "unknown"}, o \in {"ok", "raise"}}
    \cup {[name |-> "fetch", url |-> u, outcome |-> o] :
        u \in Urls, o \in {"ok", "fail", "raise"}}

\* A message of the history: its role, the iteration that appended it, and
\* for an AI message the number of its tool calls, for a tool message the id
\* of its call (the calls of a response have the ids 1, 2, ...).
Msg(role, it, n) == [role |-> role, it |-> it, n |-> n]

NoWorkerResult == [kind |-> "none", sources |-> <<>>, error |-> "none"]

\* A fetch tool that tracks every URL it was called with.
VisitEveryUrl(visited, call) ==
    IF call.name = "fetch" THEN visited \cup {call.url} ELSE visited

\* The fetch tool: if result.success: self.visited_urls.add(url)
VisitAfterCall(visited, call) ==
    IF call.name = "fetch" /\ call.outcome = "ok"
    THEN visited \cup {call.url}
    ELSE visited

\* A truncation that keeps the last max_messages messages, whatever they are.
TruncateToRecent(msgs) ==
    IF Len(msgs) > max_messages
    THEN SubSeq(msgs, Len(msgs) - max_messages + 1, Len(msgs))
    ELSE msgs

\* _step: keep the system message and the last max_messages - 1 messages.
Truncate(msgs) ==
    IF Len(msgs) > max_messages
    THEN <<msgs[1]>> \o SubSeq(msgs, Len(msgs) - (max_messages - 1) + 1, Len(msgs))
    ELSE msgs

\* A loop that also runs when iterations has reached max_iterations.
LoopContinuesInclusive(it, maxit) == it <= maxit

\* while self.iterations < self.max_iterations
LoopContinues(it, maxit) == it < maxit

\* A guard that waits until the whole budget is used.
BudgetExhausted(tokens) == tokens > max_tokens

\* if self.tokens_used > self.max_tokens * 0.9
BudgetNearlyExhausted(tokens) == tokens * 10 > max_tokens * 9

\* An answer check placed after the test for tool calls.
HasAnswerAndNoToolCalls(resp) == resp.answer /\ resp.ncalls = 0

\* _has_answer(str(content)): "<answer>" occurs in the text of the response.
HasAnswer(resp) == resp.answer

\* The content of the report of an exhausted worker.
IncompleteNotice == "Research incomplete due to iteration limit."

\* An entry of self.react_iterations: the number of the iteration and the
\* number of its actions.
Iteration(it, actions) == [iteration |-> it, actions |-> actions]

\* _extract_answer: match.group(1).strip(), "" for a blank answer.
ExtractAnswer(resp) == IF resp.blank THEN "" ELSE "answer"

\* research() returns a report, and WorkerAgent.execute wraps it in the
\* WorkerResult it returns.
ExecuteReturnsReport(kind, output) ==
    /\ wk' = "done"
    /\ full_final_output' = output
    /\ full_status' = "completed"
    /\ UNCHANGED full_error
    /\ worker_result' = [kind |-> kind,
                         sources |-> SortedList(visited_urls),
                         error |-> IF kind = "incomplete" THEN "max_iterations"
                                   ELSE "none"]

\* WorkerAgent.execute up to the first test of the loop: full_context is
\* created, research() resets the agent and writes the two first messages.
Execute ==
    /\ wk = "created"
    /\ iterations' = 0
    /\ tokens_used' = 0
    /\ visited_urls' = {}
    /\ react_iterations' = <<>>
    /\ messages' = <<Msg("system", 0, 0), Msg("human", 0, 0)>>
    /\ IF LoopContinues(0, max_iterations)
       THEN /\ wk' = "thinking"
            /\ full_status' = "running"
            /\ full_final_output' = ""
            /\ full_error' = "none"
            /\ UNCHANGED worker_result
       ELSE ExecuteReturnsReport("incomplete", IncompleteNotice)
    /\ UNCHANGED <<max_iterations, pending, llmCalls, fetchedOk, fetchFailed,
                   mentioned, answerEmitted, llmFailed>>
    /\ UNCHANGED <<runVars, sessVars, textVars, parseVars, fileVars, listVars, stormVars, progressVars, sinkVars>>

\* _step up to its tool calls: the counter, the truncation, the LLM call and
\* its usage, the AI message, the check for the answer, and the loop that
\* shows the tool decisions of a response without text.  An exception of the
\* call or of that loop leaves research() and is caught by
\* WorkerAgent.execute.
Think ==
    /\ wk = "thinking"
    /\ iterations' = iterations + 1
    /\ llmCalls' = llmCalls + 1
    /\ \E resp \in LLMResponses :
        IF resp.t = "raise"
        THEN /\ messages' = Truncate(messages)
             /\ llmFailed' = TRUE
             /\ wk' = "done"
             /\ full_status' = "failed"
             /\ full_error' = "llm_error"
             /\ worker_result' = [kind |-> "failed", sources |-> <<>>,
                                  error |-> "llm_error"]
             /\ UNCHANGED <<tokens_used, react_iterations, pending, mentioned,
                            answerEmitted, full_final_output>>
        ELSE /\ messages' = Append(Truncate(messages),
                                   Msg("ai", iterations + 1, resp.ncalls))
             /\ tokens_used' = tokens_used + resp.usage
             /\ mentioned' = IF resp.mention = 0 THEN mentioned
                             ELSE mentioned \cup {resp.mention}
             /\ UNCHANGED llmFailed
             /\ answerEmitted' = (answerEmitted \/ resp.answer)
             /\ IF HasAnswer(resp)
                THEN /\ react_iterations' =
                            Append(react_iterations, Iteration(iterations + 1, 0))
                     /\ ExecuteReturnsReport("answer", ExtractAnswer(resp))
                     /\ UNCHANGED pending
                ELSE IF resp.unsliceable
                THEN /\ wk' = "done"
                     /\ full_status' = "failed"
                     /\ full_error' = "type_error"
                     /\ worker_result' = [kind |-> "failed", sources |-> <<>>,
                                          error |-> "type_error"]
                     /\ UNCHANGED <<react_iterations, pending,
                                    full_final_output>>
                ELSE /\ pending' = resp.ncalls
                     /\ wk' = "acting"
                     /\ UNCHANGED <<react_iterations,
                                    full_status, full_final_output, full_error,
                                    worker_result>>
    /\ UNCHANGED <<max_iterations, visited_urls, fetchedOk, fetchFailed>>
    /\ UNCHANGED <<runVars, sessVars, textVars, parseVars, fileVars, listVars, stormVars, progressVars, sinkVars>>

\* len(iteration_tool_calls): the tool messages appended since the AI message.
IterationToolCalls(msgs) ==
    Cardinality({k \in 1..Len(msgs) : \A j \in k..Len(msgs) : msgs[j].role = "tool"})

\* One pass of _step's loop over response.tool_calls: the tool is run, its
\* exception is caught, and one ToolMessage is appended.
ExecuteToolCall ==
    /\ wk = "acting" /\ pending > 0
    /\ \E call \in ToolCalls :
        /\ visited_urls' = VisitAfterCall(visited_urls, call)
        /\ fetchedOk' = IF call.name = "fetch" /\ call.outcome = "ok"
                        THEN fetchedOk \cup {call.url} ELSE fetchedOk
        /\ fetchFailed' = IF call.name = "fetch" /\ call.outcome # "ok"
                          THEN fetchFailed \cup {call.url} ELSE fetchFailed
    /\ messages' = Append(messages,
                          Msg("tool", iterations, IterationToolCalls(messages) + 1))
    /\ pending' = pending - 1
    /\ UNCHANGED <<wk, max_iterations, iterations, tokens_used,
                   react_iterations, full_status, full_final_output,
                   full_error, worker_result, llmCalls,
                   mentioned, answerEmitted, llmFailed>>
    /\ UNCHANGED <<runVars, sessVars, textVars, parseVars, fileVars, listVars, stormVars, progressVars, sinkVars>>

\* The end of _step and of the loop body: the iteration is recorded, the
\* budget is checked, and the loop is tested again; when it ends research()
\* returns the report of an exhausted worker.
EndIteration ==
    /\ wk = "acting" /\ pending = 0
    /\ react_iterations' =
           Append(react_iterations,
                  Iteration(iterations, IterationToolCalls(messages)))
    /\ messages' = IF BudgetNearlyExhausted(tokens_used)
                   THEN Append(messages, Msg("directive", iterations, 0))
                   ELSE messages
    /\ IF LoopContinues(iterations, max_iterations)
       THEN /\ wk' = "thinking"
            /\ UNCHANGED <<full_status, full_final_output, full_error,
                           worker_result>>
       ELSE ExecuteReturnsReport("incomplete", IncompleteNotice)
    /\ UNCHANGED <<max_iterations, iterations, tokens_used, visited_urls,
                   pending, llmCalls, fetchedOk, fetchFailed, mentioned,
                   answerEmitted, llmFailed>>
    /\ UNCHANGED <<runVars, sessVars, textVars, parseVars, fileVars, listVars, stormVars, progressVars, sinkVars>>

\* A worker that has not run.
WorkerAtRest ==
    /\ iterations = 0
    /\ messages = <<>>
    /\ tokens_used = 0
    /\ visited_urls = {}
    /\ react_iterations = <<>>
    /\ pending = 0
    /\ full_status = "none"
    /\ full_final_output = ""
    /\ full_error = "none"
    /\ worker_result = NoWorkerResult
    /\ llmCalls = 0
    /\ fetchedOk = {}
    /\ fetchFailed = {}
    /\ mentioned = {}
    /\ answerEmitted = FALSE
    /\ llmFailed = FALSE

\* No worker is part of the behaviour (the other specifications).
IdleWorker == wk = "idle" /\ max_iterations = 0 /\ WorkerAtRest

\* WorkerAgent(...) with its ReactAgent(max_iterations=...) constructed.
StartWorker == wk = "created" /\ max_iterations \in 1..MaxIter /\ WorkerAtRest

\* self.messages after k iterations whose responses carried c tool calls each
\* and no answer, truncated by every _step as the code truncates it.
RECURSIVE History(_, _)
History(k, c) ==
    IF k = 0
    THEN <<Msg("system", 0, 0), Msg("human", 0, 0)>>
    ELSE Truncate(History(k - 1, c)) \o <<Msg("ai", k, c)>>
             \o [j \in 1..c |-> Msg("tool", k, j)]

\* The iterations a worker of WorkerAgent has behind it when it is late in
\* its run.
LateIterations == {worker_max_iterations - 2, worker_max_iterations - 1}

\* A worker of WorkerAgent late in its run: k iterations are done, each with
\* c searches and a response that reported no usage, and the loop waits for
\* the next response.
LateWorker ==
    \E k \in LateIterations, c \in 1..MaxToolCalls :
        /\ wk = "thinking"
        /\ max_iterations = worker_max_iterations
        /\ iterations = k
        /\ messages = History(k, c)
        /\ tokens_used = 0
        /\ visited_urls = {}
        /\ react_iterations = [j \in 1..k |-> Iteration(j, c)]
        /\ pending = 0
        /\ full_status = "running"
        /\ full_final_output = ""
        /\ full_error = "none"
        /\ worker_result = NoWorkerResult
        /\ llmCalls = k
        /\ fetchedOk = {}
        /\ fetchFailed = {}
        /\ mentioned = {}
        /\ answerEmitted = FALSE
        /\ llmFailed = FALSE

\* A worker at its construction, or late in its run.
StartLongRun == StartWorker \/ LateWorker

NextWorker ==
    \/ Execute
    \/ Think
    \/ ExecuteToolCall
    \/ EndIteration

(***************************************************************************)
(*          PART 3: THE SESSION STORE AND THE VERSIONING COMMANDS          *)
(***************************************************************************)

\* Session ids: "s1" and "s2" are in the vault, "s3" is not.
Sids == {"s1", "s2", "s3"}

Versions == 1..MaxVersion

\* The n of the worker files task_<n>_worker.md.
TaskNumbers == {1, 2}

TaskId(n) == IF n = 1 THEN "task_1" ELSE "task_2"

\* f"{session.session_id}_v{session.version}", and None.
ParentId(sid, v) == [sid |-> sid, v |-> v]

NoParent == [sid |-> "none", v |-> 0]

\* A report: its text, and how many times report_template wrapped it.
EmptyReport == [text |-> "", wraps |-> 0]

NoFile == [text |-> "no_file", wraps |-> 0]

NoWorker == [task_id |-> "none", worker_id |-> "none", status |-> "none", cost |-> 0]

NoMoc == [session_id |-> "none", version |-> 0, parent_session |-> NoParent,
          total_cost |-> 0, status |-> "none", num_workers |-> 0]

NoSession == [session_id |-> "none", version |-> 0, parent_session_id |-> NoParent,
              cost |-> 0, report |-> EmptyReport, workers |-> <<>>,
              status |-> "none"]

\* The directory of a session id before anything was written to it.
EmptyDir == [moc |-> NoMoc,
             workers |-> [n \in TaskNumbers |-> NoWorker],
             reports |-> [v \in Versions |-> NoFile]]

\* _write_workers: one file per worker, named after its task_id; a file of
\* that name is overwritten, the other files of the directory stay.
WriteWorkers(files, workers) ==
    [n \in TaskNumbers |->
        LET same == {k \in 1..Len(workers) : workers[k].task_id = TaskId(n)}
        IN IF same = {} THEN files[n]
           ELSE workers[CHOOSE k \in same : \A j \in same : j <= k]]

\* _write_session_moc: the frontmatter of session.md.
MocOf(session) ==
    [session_id |-> session.session_id,
     version |-> session.version,
     parent_session |-> session.parent_session_id,
     total_cost |-> session.cost,
     status |-> session.status,
     num_workers |-> Len(session.workers)]

\* write_session: the workers, report_v<version>.md, and then session.md,
\* the one map of content of the session id, which is overwritten.
WriteSession(store, session) ==
    [store EXCEPT ![session.session_id] =
        [moc |-> MocOf(session),
         workers |-> WriteWorkers(@.workers, session.workers),
         reports |-> [@.reports EXCEPT ![session.version] = session.report]]]

\* _load_workers: the worker files in the order of their names.
LoadWorkers(store, sid) ==
    LET present == {n \in TaskNumbers : store[sid].workers[n] # NoWorker}
    IN [k \in 1..Cardinality(present) |->
          store[sid].workers[CHOOSE n \in present :
              Cardinality({m \in present : m < n}) = k - 1]]

\* _load_report: report_v<version>.md up to its metadata section, that is
\* the report inside the header report_template put around it; "" when the
\* file does not exist.
LoadReport(store, sid, version) ==
    LET file == store[sid].reports[version]
    IN IF file = NoFile THEN EmptyReport
       ELSE [text |-> file.text, wraps |-> file.wraps + 1]

SessionExists(store, sid) == store[sid].moc # NoMoc

\* load_session(session_id, version): identity, version, parent and cost
\* are read from session.md; version only selects the report file.
LoadSession(store, sid, version) ==
    IF ~SessionExists(store, sid) THEN NoSession
    ELSE LET moc == store[sid].moc IN
         [session_id |-> moc.session_id,
          version |-> moc.version,
          parent_session_id |-> moc.parent_session,
          cost |-> moc.total_cost,
          report |-> LoadReport(store, sid, version),
          workers |-> LoadWorkers(store, sid),
          status |-> moc.status]

\* A new version that keeps the parent of the session it comes from.
NewVersionKeepsParent(session) ==
    [session_id |-> session.session_id,
     version |-> session.version + 1,
     parent_session_id |-> session.parent_session_id,
     cost |-> 0, report |-> EmptyReport, workers |-> <<>>, status |-> "pending"]

\* ResearchSession(session_id=session.session_id, version=session.version + 1,
\*                 parent_session_id=f"{session.session_id}_v{session.version}", ...)
\* with the defaults of the dataclass in the other fields; research() does
\* not touch the object.
NewVersion(session) ==
    [session_id |-> session.session_id,
     version |-> session.version + 1,
     parent_session_id |-> ParentId(session.session_id, session.version),
     cost |-> 0, report |-> EmptyReport, workers |-> <<>>, status |-> "pending"]

\* What a user names in expand: a task id, a worker id, or neither.
WorkerArgs == {"task_1", "task_2", "worker_1", "nobody"}

\* for w in session.workers: if w.worker_id == worker_id or w.task_id == worker_id
FindTargetWorker(session, arg) ==
    \E k \in 1..Len(session.workers) :
        session.workers[k].worker_id = arg \/ session.workers[k].task_id = arg

\* build_worker_expansion_context: next(w for w in session.workers
\* if w.worker_id == worker_id), ValueError when there is none.
ExpansionContextBuilt(session, arg) ==
    \E k \in 1..Len(session.workers) : session.workers[k].worker_id = arg

NoOp == [op |-> "none", sid |-> "none", V |-> 0, yielded |-> FALSE,
         saved |-> FALSE, before |-> NoSession, after |-> NoSession,
         object |-> NoSession, new |-> NoSession,
         arg |-> "none", ran |-> FALSE]

\* The note of a command that ended without a new version.
Ended(op, session) ==
    [NoOp EXCEPT !.op = op, !.sid = session.session_id, !.V = session.version,
                 !.object = session]

\* The note of a command that returned before it started any research: the
\* command, the worker it named, and the active session it met.
Returned(op, arg, session) == [Ended(op, session) EXCEPT !.arg = arg]

NoReplState == [session_id |-> "none", version |-> 0]

\* The number of versions the commands have yielded so far.
RECURSIVE Yielded(_)
Yielded(S) ==
    IF S = {} THEN 0
    ELSE LET sid == CHOOSE x \in S : TRUE
         IN Len(produced[sid]) + Yielded(S \ {sid})

\* manager.set_active_session(session): the active session and the state file.
SetActiveSession(session) ==
    /\ active_session' = session
    /\ repl_state' = [session_id |-> session.session_id, version |-> session.version]

\* cmd_switch: manager.load_session(session_id), with the default version 1.
Switch(sid) ==
    /\ IF SessionExists(vault, sid)
       THEN SetActiveSession(LoadSession(vault, sid, 1))
       ELSE UNCHANGED <<active_session, repl_state>>
    /\ UNCHANGED <<vault, lastOp, produced>>
    /\ UNCHANGED <<runVars, workerVars, textVars, parseVars, fileVars, listVars, stormVars, progressVars, sinkVars>>

\* cmd_reset: manager.clear_active_session().
Reset ==
    /\ active_session # NoSession
    /\ active_session' = NoSession
    /\ repl_state' = NoReplState
    /\ UNCHANGED <<vault, lastOp, produced>>
    /\ UNCHANGED <<runVars, workerVars, textVars, parseVars, fileVars, listVars, stormVars, progressVars, sinkVars>>

\* A new REPL process: SessionManager() and restore_last_session(), which
\* loads the session id and version of the state file.
RestartRepl ==
    /\ IF repl_state = NoReplState
       THEN /\ active_session' = NoSession
            /\ UNCHANGED repl_state
       ELSE IF SessionExists(vault, repl_state.session_id)
       THEN /\ active_session' =
                  LoadSession(vault, repl_state.session_id, repl_state.version)
            /\ UNCHANGED repl_state
       ELSE /\ active_session' = NoSession
            /\ repl_state' = NoReplState
    /\ UNCHANGED <<vault, lastOp, produced>>
    /\ UNCHANGED <<runVars, workerVars, textVars, parseVars, fileVars, listVars, stormVars, progressVars, sinkVars>>

\* The common end of cmd_continue and cmd_expand: the new ResearchSession,
\* orchestrator.research (which may raise and end the command), then
\* manager.save_session(new_session) and manager.set_active_session(new_session).
ResearchAndSave(op, arg, session, researched) ==
    LET new == NewVersion(session)
        sid == session.session_id
        V == session.version
    IN IF researched
       THEN /\ vault' = WriteSession(vault, new)
            /\ SetActiveSession(new)
            /\ lastOp' = [op |-> op, sid |-> sid, V |-> V, yielded |-> TRUE,
                          saved |-> TRUE,
                          before |-> LoadSession(vault, sid, V),
                          after |-> LoadSession(vault', sid, V),
                          object |-> session, new |-> new,
                          arg |-> arg, ran |-> TRUE]
            /\ produced' = [produced EXCEPT ![sid] =
                  Append(@, [version |-> new.version,
                             parent |-> new.parent_session_id])]
       ELSE /\ lastOp' = [Returned(op, arg, session) EXCEPT !.ran = TRUE]
            /\ UNCHANGED <<vault, active_session, repl_state, produced>>

\* A cmd_start that goes on whatever manager.has_active_session() says.
StartAlwaysGoesOn(session) == FALSE

\* cmd_start: if manager.has_active_session(), the command returns.
StartReturnsEarly(session) == session # NoSession

\* cmd_start: with an active session the command returns at once; otherwise
\* the user confirms or cancels, and after a confirmation research runs and
\* raises, or returns and the test of orchestrator.session raises: nothing is
\* saved and no session becomes active.
CmdStart ==
    /\ IF StartReturnsEarly(active_session)
       THEN lastOp' = Returned("start", "none", active_session)
       ELSE \E confirmed \in BOOLEAN :
               lastOp' = [Returned("start", "none", active_session)
                             EXCEPT !.ran = confirmed]
    /\ UNCHANGED <<vault, active_session, repl_state, produced>>
    /\ UNCHANGED <<runVars, workerVars, textVars, parseVars, fileVars, listVars, stormVars, progressVars, sinkVars>>

\* cmd_continue with a non-empty continuation query: without an active
\* session the command returns, otherwise research runs on the new version.
Continue ==
    /\ IF active_session = NoSession
       THEN /\ lastOp' = Returned("continue", "none", active_session)
            /\ UNCHANGED <<vault, active_session, repl_state, produced>>
       ELSE /\ active_session.version < MaxVersion
            /\ Yielded(Sids) < MaxOps
            /\ \E researched \in BOOLEAN :
                  ResearchAndSave("continue", "none", active_session, researched)
    /\ UNCHANGED <<runVars, workerVars, textVars, parseVars, fileVars, listVars, stormVars, progressVars, sinkVars>>

\* cmd_expand on the active session: the target worker is looked up by
\* worker_id or task_id, the expansion context by worker_id only.
Expand ==
    /\ \E arg \in WorkerArgs, researched \in BOOLEAN :
          IF active_session = NoSession
          THEN /\ lastOp' = Returned("expand", arg, active_session)
               /\ UNCHANGED <<vault, active_session, repl_state, produced>>
          ELSE /\ active_session.version < MaxVersion
               /\ Yielded(Sids) < MaxOps
               /\ IF /\ FindTargetWorker(active_session, arg)
                     /\ ExpansionContextBuilt(active_session, arg)
                  THEN ResearchAndSave("expand", arg, active_session, researched)
                  ELSE /\ lastOp' = Returned("expand", arg, active_session)
                       /\ UNCHANGED <<vault, active_session, repl_state, produced>>
    /\ UNCHANGED <<runVars, workerVars, textVars, parseVars, fileVars, listVars, stormVars, progressVars, sinkVars>>

\* The expand command of the CLI: the session is loaded, the new version is
\* put in orchestrator.session, research runs; nothing is written.
CliExpand(sid) ==
    /\ SessionExists(vault, sid)
    /\ Yielded(Sids) < MaxOps
    /\ LET parent_session == LoadSession(vault, sid, 1) IN
       /\ parent_session.version < MaxVersion
       /\ \E arg \in WorkerArgs, researched \in BOOLEAN :
            IF FindTargetWorker(parent_session, arg) /\ researched
            THEN LET new == NewVersion(parent_session)
                     V == parent_session.version
                 IN /\ lastOp' = [op |-> "cli_expand", sid |-> sid, V |-> V,
                                  yielded |-> TRUE, saved |-> FALSE,
                                  before |-> LoadSession(vault, sid, V),
                                  after |-> LoadSession(vault, sid, V),
                                  object |-> parent_session, new |-> new,
                                  arg |-> arg, ran |-> TRUE]
                    /\ produced' = [produced EXCEPT ![sid] =
                          Append(@, [version |-> new.version,
                                     parent |-> new.parent_session_id])]
            ELSE /\ lastOp' = Ended("cli_expand", parent_session)
                 /\ UNCHANGED produced
    /\ UNCHANGED <<vault, active_session, repl_state>>
    /\ UNCHANGED <<runVars, workerVars, textVars, parseVars, fileVars, listVars, stormVars, progressVars, sinkVars>>

\* The report an LLM wrote for recompile-report.
RecompiledReport == [text |-> "recompiled", wraps |-> 0]

\* recompile-report's "new report version": loaded_session.version += 1 and
\* loaded_session.report = new_report, on the loaded object itself; no other
\* ResearchSession is constructed.
Recompiled(loaded_session) ==
    [object |-> [loaded_session EXCEPT !.version = @ + 1,
                                       !.report = RecompiledReport],
     new |-> NoSession]

\* writer._write_report(loaded_session, {}): the method takes (session,
\* session_dir, worker_paths), so the call raises TypeError and writes nothing.
WriteReportCall(store, session) == store

\* The recompile-report command of the CLI.
Recompile(sid) ==
    /\ SessionExists(vault, sid)
    /\ Yielded(Sids) < MaxOps
    /\ LET loaded_session == LoadSession(vault, sid, 1) IN
       /\ loaded_session.version < MaxVersion
       /\ \E synthesized \in BOOLEAN :
            IF synthesized
            THEN LET r == Recompiled(loaded_session)
                     V == loaded_session.version
                 IN /\ vault' = WriteReportCall(vault, r.object)
                    /\ lastOp' = [op |-> "recompile", sid |-> sid, V |-> V,
                                  yielded |-> TRUE, saved |-> FALSE,
                                  before |-> LoadSession(vault, sid, V),
                                  after |-> LoadSession(vault', sid, V),
                                  object |-> r.object, new |-> r.new,
                                  arg |-> "none", ran |-> TRUE]
                    /\ produced' = [produced EXCEPT ![sid] =
                          Append(@, [version |-> r.object.version,
                                     parent |-> r.object.parent_session_id])]
            ELSE /\ lastOp' = Ended("recompile", loaded_session)
                 /\ UNCHANGED <<vault, produced>>
    /\ UNCHANGED <<active_session, repl_state>>
    /\ UNCHANGED <<runVars, workerVars, textVars, parseVars, fileVars, listVars, stormVars, progressVars, sinkVars>>

\* The sessions of the vault when the commands start: each written once, at
\* version 1, by write_session.
FirstSession(sid, workers, cost) ==
    [session_id |-> sid, version |-> 1, parent_session_id |-> NoParent,
     cost |-> cost, report |-> [text |-> "first", wraps |-> 0],
     workers |-> workers, status |-> "completed"]

FirstWorkers ==
    <<[task_id |-> "task_1", worker_id |-> "worker_1", status |-> "completed", cost |-> 2],
      [task_id |-> "task_2", worker_id |-> "task_2", status |-> "failed", cost |-> 3]>>

StartSession ==
    /\ vault = WriteSession(
                 WriteSession([sid \in Sids |-> EmptyDir],
                              FirstSession("s1", FirstWorkers, 5)),
                 FirstSession("s2", SubSeq(FirstWorkers, 1, 1), 2))
    /\ active_session = NoSession
    /\ repl_state = NoReplState
    /\ lastOp = NoOp
    /\ produced = [sid \in Sids |-> <<>>]

\* No vault is part of the behaviour (the other specifications).
IdleSession ==
    /\ vault = [sid \in Sids |-> EmptyDir]
    /\ active_session = NoSession
    /\ repl_state = NoReplState
    /\ lastOp = NoOp
    /\ produced = [sid \in Sids |-> <<>>]

\* cmd_start after orchestrator.research(query) returned, for a command
\* given with no active session and confirmed: the test of
\* orchestrator.session reads an attribute that LeadResearcher never sets,
\* the AttributeError ends the command, and save_session and
\* set_active_session are not reached.
CmdStartAfterResearch ==
    /\ outcome = "returned"
    /\ active_session = NoSession
    /\ lastOp = NoOp
    /\ lastOp' = [NoOp EXCEPT !.op = "start"]
    /\ UNCHANGED <<vault, active_session, repl_state, produced>>
    /\ UNCHANGED <<runVars, workerVars, textVars, parseVars, fileVars, listVars, stormVars, progressVars, sinkVars>>

\* cmd_start: the run of the orchestrator and the end of the command.
NextStart ==
    \/ NextRun
    \/ CmdStartAfterResearch

NextSession ==
    \/ \E sid \in Sids : Switch(sid)
    \/ Reset
    \/ RestartRepl
    \/ CmdStart
    \/ Continue
    \/ Expand
    \/ \E sid \in Sids : CliExpand(sid)
    \/ \E sid \in Sids : Recompile(sid)

(***************************************************************************)
(*          PART 4: ONE SESSION WRITTEN AS TEXT AND LOADED BACK            *)
(***************************************************************************)

\* A text is a sequence of tokens.  "nl" is the line break; "---", "## ",
\* "### Iteration " and the other markers are the substrings the loader looks
\* for; every other token is text without any of them.
Whitespace == {"nl", " "}

\* str(n) of a small number, and int of it
Numeral(n) == <<"0", "1", "2", "3", "4", "5", "6", "7", "8", "9">>[n + 1]

NumberOf(token) == CHOOSE n \in 0..9 : Numeral(n) = token

\* The first index from `from` on that holds the token, 0 when none does.
First(text, token, from) ==
    LET at == {i \in from..Len(text) : text[i] = token}
    IN IF at = {} THEN 0 ELSE CHOOSE i \in at : \A j \in at : i <= j

\* str.split(token)
RECURSIVE SplitOn(_, _)
SplitOn(text, token) ==
    LET i == First(text, token, 1)
    IN IF i = 0 THEN <<text>>
       ELSE <<SubSeq(text, 1, i - 1)>> \o SplitOn(SubSeq(text, i + 1, Len(text)), token)

\* "\n".join(lines)
RECURSIVE JoinLines(_)
JoinLines(lines) ==
    IF lines = <<>> THEN <<>>
    ELSE IF Len(lines) = 1 THEN lines[1]
    ELSE lines[1] \o <<"nl">> \o JoinLines(Tail(lines))

\* str.strip()
RECURSIVE Strip(_)
Strip(text) ==
    IF text = <<>> THEN text
    ELSE IF Head(text) \in Whitespace THEN Strip(Tail(text))
    ELSE IF text[Len(text)] \in Whitespace THEN Strip(SubSeq(text, 1, Len(text) - 1))
    ELSE text

\* yaml.dump(data, sort_keys=False) of a flat mapping: one line per key.  The
\* scalars are written so that yaml.safe_load returns them unchanged: a
\* number as its numeral, None as null, a string as its text.
RECURSIVE YamlDump(_)
YamlDump(data) ==
    IF data = <<>> THEN <<>>
    ELSE <<Head(data).key>> \o Head(data).value \o <<"nl">> \o YamlDump(Tail(data))

\* yaml.safe_load of such a mapping.
YamlLoad(text) ==
    LET lines == SplitOn(text, "nl")
        full == {k \in 1..Len(lines) : lines[k] # <<>>}
    IN [key \in {lines[k][1] : k \in full} |->
          Strip(Tail(lines[CHOOSE k \in full : lines[k][1] = key]))]

\* _frontmatter_block: f"---\n{yaml_str}---\n\n"
FrontmatterBlock(data) ==
    <<"---", "nl">> \o YamlDump(data) \o <<"---", "nl", "nl">>

\* _parse_frontmatter: content.split("---", 2) cuts at the first two
\* occurrences of "---", wherever they are.
ParseFrontmatter(file_text) ==
    LET j == First(file_text, "---", 2)
    IN IF file_text = <<>> \/ file_text[1] # "---" \/ j = 0
       THEN [frontmatter |-> <<>>, body |-> file_text]
       ELSE [frontmatter |-> YamlLoad(Strip(SubSeq(file_text, 2, j - 1))),
             body |-> Strip(SubSeq(file_text, j + 1, Len(file_text)))]

\* None or a string, as a YAML scalar and back.
DumpOptional(v) == IF v = None THEN <<"null">> ELSE v

LoadOptional(value) == IF value = <<"null">> THEN None ELSE value

\* _write_session_moc and session_moc_template: the frontmatter in the order
\* of the dict, then the body, which starts with the query.
SessionMoc(s) ==
    FrontmatterBlock(<<
        [key |-> "type:", value |-> <<"research_session">>],
        [key |-> "session_id:", value |-> s.session_id],
        [key |-> "version:", value |-> <<Numeral(s.version)>>],
        [key |-> "query:", value |-> s.query],
        [key |-> "status:", value |-> s.status],
        [key |-> "num_workers:", value |-> <<Numeral(Len(s.workers))>>],
        [key |-> "total_cost:", value |-> <<Numeral(s.cost)>>],
        [key |-> "parent_session:", value |-> DumpOptional(s.parent_session_id)]>>)
    \o <<"# Research Session: ">> \o s.query \o <<"nl", "nl", "## ", "Query", "nl">>
    \o s.query \o <<"nl">>

\* The lines of one tool call in the ReAct trace of a worker note; the token
\* "- '" is the start of the line up to the backquote before the tool's name.
ActionLines(action) ==
    <<"- '", action.tool_name, "(", action.url, ")'", "nl",
      IF action.success THEN "  - Success" ELSE "  - Failed", "nl", "nl">>

RECURSIVE ActionsText(_)
ActionsText(actions) ==
    IF actions = <<>> THEN <<>>
    ELSE ActionLines(Head(actions)) \o ActionsText(Tail(actions))

\* The lines of the iterations from the k-th on.
RECURSIVE ReactSection(_, _)
ReactSection(trace, k) ==
    IF k > Len(trace) THEN <<>>
    ELSE <<"### Iteration ", Numeral(k), "nl", "nl",
           "**Thought**:", "thought", "nl", "nl">>
         \o (IF trace[k] = <<>> THEN <<>>
             ELSE <<"**Actions**:", "nl", "nl">> \o ActionsText(trace[k]))
         \o <<"nl">>
         \o ReactSection(trace, k + 1)

\* _write_workers and worker_note_template
WorkerNote(w) ==
    FrontmatterBlock(<<
        [key |-> "type:", value |-> <<"worker">>],
        [key |-> "task_id:", value |-> w.task_id],
        [key |-> "worker_id:", value |-> w.worker_id],
        [key |-> "objective:", value |-> w.objective],
        [key |-> "status:", value |-> w.status],
        [key |-> "cost:", value |-> <<Numeral(w.cost)>>]>>)
    \o <<"# Worker: ">> \o w.objective \o <<"nl", "nl">>
    \o <<"**Objective**: ">> \o w.objective \o <<"nl", "nl">>
    \o <<"## ", "Research Process (ReAct Loop)", "nl", "nl">>
    \o ReactSection(w.react_iterations, 1) \o <<"nl", "nl">>
    \o <<"## ", "Final Output", "nl", "nl">> \o w.final_output \o <<"nl", "nl">>
    \o <<"## ", "Compressed Summary", "nl", "nl", "summary", "nl", "nl">>
    \o <<"## ", "Metadata", "nl", "nl", "- metadata", "nl">>

\* _parse_react_trace's loop over the lines of one iteration: a line that
\* starts with "- '" in the actions part is a ToolCall with the tool's name,
\* arguments={} and success=True.
RECURSIVE ParseActions(_, _, _)
ParseActions(lines, current_section, actions) ==
    IF lines = <<>> THEN actions
    ELSE LET line == Head(lines)
             start == IF line = <<>> THEN "" ELSE line[1]
         IN IF start = "**Thought**:"
            THEN ParseActions(Tail(lines), "thought", actions)
            ELSE IF start = "**Actions**:"
            THEN ParseActions(Tail(lines), "actions", actions)
            ELSE IF start = "**Observation**:"
            THEN ParseActions(Tail(lines), "observation", actions)
            ELSE IF current_section = "actions" /\ start = "- '"
            THEN ParseActions(Tail(lines), current_section,
                              Append(actions, [tool_name |-> line[2], url |-> "",
                                               success |-> TRUE]))
            ELSE ParseActions(Tail(lines), current_section, actions)

\* _parse_react_trace: body.split("### Iteration ")[1:]
ParseReactTrace(body) ==
    LET sections == Tail(SplitOn(body, "### Iteration "))
    IN [k \in 1..Len(sections) |->
          ParseActions(Tail(SplitOn(sections[k], "nl")), "none", <<>>)]

\* _split_sections: a line that starts with "## " ends the section before it
\* and names the next one.  The result is the sequence of the sections.
RECURSIVE SplitSections(_, _, _)
SplitSections(lines, name, current_lines) ==
    IF lines = <<>>
    THEN IF name = <<>> THEN <<>>
         ELSE <<[name |-> name, text |-> Strip(JoinLines(current_lines))]>>
    ELSE LET line == Head(lines) IN
         IF line # <<>> /\ line[1] = "## "
         THEN (IF name = <<>> THEN <<>>
               ELSE <<[name |-> name, text |-> Strip(JoinLines(current_lines))]>>)
              \o SplitSections(Tail(lines), Strip(Tail(line)), <<>>)
         ELSE SplitSections(Tail(lines), name, Append(current_lines, line))

\* sections.get(name, ""): the dict keeps the last section of a name.
SectionGet(sections, name) ==
    LET named == {k \in 1..Len(sections) : sections[k].name = name}
    IN IF named = {} THEN <<>>
       ELSE sections[CHOOSE k \in named : \A j \in named : j <= k].text

\* The tool calls of all iterations, one list.
RECURSIVE Flatten(_)
Flatten(lists) ==
    IF lists = <<>> THEN <<>> ELSE Head(lists) \o Flatten(Tail(lists))

\* tc.arguments.get("url", "") for each fetch tool call with tc.success
FetchedUrls(tool_calls) ==
    LET fetches == {k \in 1..Len(tool_calls) :
                       tool_calls[k].tool_name = "fetch" /\ tool_calls[k].success}
    IN [n \in 1..Cardinality(fetches) |->
          tool_calls[CHOOSE k \in fetches :
              Cardinality({j \in fetches : j < k}) = n - 1].url]

WorkerKeys == {"task_id:", "worker_id:", "objective:", "status:"}

\* _load_worker_from_file; frontmatter[key] of a missing key raises KeyError.
LoadWorkerFromFile(file_text) ==
    LET p == ParseFrontmatter(file_text)
        frontmatter == p.frontmatter
        parsed_iterations == ParseReactTrace(p.body)
        sections == SplitSections(SplitOn(p.body, "nl"), <<>>, <<>>)
    IN IF ~(WorkerKeys \subseteq DOMAIN frontmatter)
       THEN [raised |-> TRUE]
       ELSE [raised |-> FALSE,
             task_id |-> frontmatter["task_id:"],
             worker_id |-> frontmatter["worker_id:"],
             objective |-> frontmatter["objective:"],
             status |-> frontmatter["status:"],
             cost |-> IF "cost:" \in DOMAIN frontmatter
                      THEN NumberOf(frontmatter["cost:"][1]) ELSE 0,
             react_iterations |-> parsed_iterations,
             final_output |-> Strip(SectionGet(sections, <<"Final Output">>)),
             sources |-> FetchedUrls(Flatten(parsed_iterations))]

SessionKeys == {"session_id:", "version:", "query:", "status:", "total_cost:"}

\* load_session from the text of session.md and of the worker notes.
LoadSessionText(store) ==
    LET frontmatter == ParseFrontmatter(store.moc).frontmatter
        workers == [k \in 1..Len(store.workers) |->
                       LoadWorkerFromFile(store.workers[k])]
    IN IF ~(SessionKeys \subseteq DOMAIN frontmatter)
       THEN [raised |-> TRUE]
       ELSE IF \E k \in 1..Len(workers) : workers[k].raised
       THEN [raised |-> TRUE]
       ELSE [raised |-> FALSE,
             session_id |-> frontmatter["session_id:"],
             version |-> NumberOf(frontmatter["version:"][1]),
             parent_session_id |->
                 IF "parent_session:" \in DOMAIN frontmatter
                 THEN LoadOptional(frontmatter["parent_session:"]) ELSE None,
             query |-> frontmatter["query:"],
             status |-> frontmatter["status:"],
             cost |-> NumberOf(frontmatter["total_cost:"][1]),
             workers |-> workers]

\* The sessions given to write_session.  A query or an objective is plain
\* text or holds three dashes; a final output is one paragraph or has a
\* markdown heading of the second level in it.
Queries == {<<"query">>, <<"pros", "---", "cons">>}

Objectives == {<<"objective">>, <<"before", "---", "after">>}

FinalOutputs == {<<"findings">>,
                 <<"findings", "nl", "nl", "## ", "Details", "nl", "more">>}

FetchCall(url, success) == [tool_name |-> "fetch", url |-> url, success |-> success]

\* The ReAct traces of a worker: per iteration its tool calls.
Traces ==
    {<<>>,
     << <<[tool_name |-> "search", url |-> "terms", success |-> TRUE]>> >>,
     << <<FetchCall("u1", TRUE)>> >>,
     << <<FetchCall("u1", FALSE)>> >>,
     << <<FetchCall("u2", TRUE)>>, <<FetchCall("u1", TRUE)>> >>}

\* full_context.sources = report.sources: the URLs fetched with success,
\* sorted.
VisitedSources(trace) ==
    LET calls == Flatten(trace)
        urls == {calls[k].url : k \in {j \in 1..Len(calls) :
                    calls[j].tool_name = "fetch" /\ calls[j].success}}
    IN IF urls = {} THEN <<>>
       ELSE IF urls = {"u1"} THEN <<"u1">>
       ELSE IF urls = {"u2"} THEN <<"u2">>
       ELSE <<"u1", "u2">>

WorkerContexts ==
    {[task_id |-> <<"task_1">>, worker_id |-> <<"worker_1">>,
      objective |-> o, status |-> <<st>>, cost |-> c,
      react_iterations |-> t, final_output |-> f,
      sources |-> VisitedSources(t)] :
        o \in Objectives, st \in {"completed", "failed"}, c \in {0, 2},
        t \in Traces, f \in FinalOutputs}

\* f"{session.session_id}_v{session.version}" of the version before, None for
\* version 1.
ParentText(sid, version) ==
    IF version = 1 THEN None ELSE sid \o <<"_v", Numeral(version - 1)>>

ResearchSessions ==
    {[session_id |-> <<"s1">>, version |-> v,
      parent_session_id |-> ParentText(<<"s1">>, v),
      query |-> q, status |-> <<"completed">>, cost |-> c, workers |-> ws] :
        v \in Versions, q \in Queries, c \in {0, 5},
        ws \in {<<>>} \cup {<<w>> : w \in WorkerContexts}}

NoText == [moc |-> <<>>, workers |-> <<>>]

NotLoaded == [raised |-> FALSE]

\* write_session: session.md and one note per worker.
WriteSessionText ==
    /\ rt_phase = "new"
    /\ rt_vault' = [moc |-> SessionMoc(rt_session),
                    workers |-> [k \in 1..Len(rt_session.workers) |->
                                    WorkerNote(rt_session.workers[k])]]
    /\ rt_phase' = "written"
    /\ UNCHANGED <<rt_session, rt_loaded>>
    /\ UNCHANGED <<runVars, workerVars, sessVars, parseVars, fileVars, listVars, stormVars, progressVars, sinkVars>>

\* load_session of the session just written.
LoadWrittenSession ==
    /\ rt_phase = "written"
    /\ rt_loaded' = LoadSessionText(rt_vault)
    /\ rt_phase' = "loaded"
    /\ UNCHANGED <<rt_session, rt_vault>>
    /\ UNCHANGED <<runVars, workerVars, sessVars, parseVars, fileVars, listVars, stormVars, progressVars, sinkVars>>

StartText ==
    /\ rt_phase = "new"
    /\ rt_session \in ResearchSessions
    /\ rt_vault = NoText
    /\ rt_loaded = NotLoaded

\* No session is written as text (the other specifications).
IdleText ==
    /\ rt_phase = "idle"
    /\ rt_session = NotLoaded
    /\ rt_vault = NoText
    /\ rt_loaded = NotLoaded

NextText == WriteSessionText \/ LoadWrittenSession

(***************************************************************************)
(*                  PART 5: THE PLAN PARSER ON A TEXT                      *)
(***************************************************************************)
\* A response text is a sequence of tokens: each of the characters that the
\* parser looks at ([ ] { } " \ , : space and "nl", the newline) is a token of
\* its own, "'''" stands for the run of three backquotes of a code fence, and
\* every other token is a run of letters or digits.

Openers == {"{", "["}
Closers == {"}", "]"}
Fence == "'''"

\* A scan that counts the brackets inside string values too.
DepthAfterCountingStrings(depth, char, in_string) ==
    IF char \in Openers THEN depth + 1
    ELSE IF char \in Closers THEN depth - 1
    ELSE depth

\* if not in_string: depth += 1 on { and [, depth -= 1 on } and ].
DepthAfter(depth, char, in_string) ==
    IF in_string THEN depth
    ELSE IF char \in Openers THEN depth + 1
    ELSE IF char \in Closers THEN depth - 1
    ELSE depth

\* The scan of _strip_markdown_json before the character at json_start.
ScanStart == [depth |-> 0, in_string |-> FALSE, escape_next |-> FALSE, found |-> 0]

\* The body of the second loop of _strip_markdown_json for the character at
\* index i; found becomes i at the closer that brings depth back to 0, where
\* the loop returns.
ScanStep(st, char, i) ==
    IF st.escape_next THEN [st EXCEPT !.escape_next = FALSE]
    ELSE IF char = "\\" THEN [st EXCEPT !.escape_next = TRUE]
    ELSE IF char = "\"" THEN [st EXCEPT !.in_string = ~st.in_string]
    ELSE LET d == DepthAfter(st.depth, char, st.in_string) IN
         IF d < st.depth /\ d = 0 THEN [st EXCEPT !.depth = d, !.found = i]
         ELSE [st EXCEPT !.depth = d]

\* The loop over the indexes lo..hi in ascending order, run half by half.
RECURSIVE ScanRange(_, _, _, _)
ScanRange(raw, lo, hi, st) ==
    IF st.found # 0 \/ lo > hi THEN st
    ELSE IF lo = hi THEN ScanStep(st, raw[lo], lo)
    ELSE LET mid == (lo + hi) \div 2
             left == ScanRange(raw, lo, mid, st)
         IN IF left.found # 0 THEN left ELSE ScanRange(raw, mid + 1, hi, left)

\* for i in range(json_start, len(raw)): the index of the closer that the loop
\* returns at, or 0 when it runs to the end of the text.
MatchBracket(raw, json_start) ==
    ScanRange(raw, json_start, Len(raw), ScanStart).found

\* The first lines of _strip_markdown_json: strip, and for a text that starts
\* with a fence drop its first line and a fence at its end.
StripFences(text) ==
    LET raw == Strip(text) IN
    IF raw # <<>> /\ raw[1] = Fence
    THEN LET first_newline == First(raw, "nl", 1)
             body == IF first_newline # 0
                     THEN SubSeq(raw, first_newline + 1, Len(raw)) ELSE raw
         IN IF body # <<>> /\ body[Len(body)] = Fence
            THEN Strip(SubSeq(body, 1, Len(body) - 1)) ELSE body
    ELSE raw

\* _strip_markdown_json
StripMarkdownJson(text) ==
    LET raw == StripFences(text)
        starts == {i \in 1..Len(raw) : raw[i] \in Openers}
    IN IF starts = {} THEN raw
       ELSE LET json_start == CHOOSE i \in starts : \A j \in starts : i <= j
                json_end == MatchBracket(raw, json_start)
            IN IF json_end = 0 THEN raw ELSE SubSeq(raw, json_start, json_end)

\* json.loads.  A value is a record of its kind ("str", "arr", "obj") and its
\* items: the characters of a string, the values of an array, the key and
\* value pairs of an object.  The texts hold no numbers and no literals.
JsonFail == [ok |-> FALSE, next |-> 0, value |-> [kind |-> "none", items |-> <<>>]]

JsonValue(kind, items, next) ==
    [ok |-> TRUE, next |-> next, value |-> [kind |-> kind, items |-> items]]

RECURSIVE SkipWhitespace(_, _)
SkipWhitespace(s, i) ==
    IF i <= Len(s) /\ s[i] \in Whitespace THEN SkipWhitespace(s, i + 1) ELSE i

\* The characters after \ that the texts use.
Escapable == {"\"", "\\"}

\* A string from the character after its opening quote on.
RECURSIVE ScanString(_, _, _)
ScanString(s, i, acc) ==
    IF i > Len(s) THEN JsonFail
    ELSE IF s[i] = "\"" THEN JsonValue("str", acc, i + 1)
    ELSE IF s[i] = "\\"
         THEN IF i + 1 <= Len(s) /\ s[i + 1] \in Escapable
              THEN ScanString(s, i + 2, Append(acc, s[i + 1]))
              ELSE JsonFail
    ELSE IF s[i] = "nl" THEN JsonFail
    ELSE ScanString(s, i + 1, Append(acc, s[i]))

RECURSIVE ParseValue(_, _)
RECURSIVE ParseElements(_, _, _)
RECURSIVE ParseMembers(_, _, _)

ParseValue(s, from) ==
    LET i == SkipWhitespace(s, from) IN
    IF i > Len(s) THEN JsonFail
    ELSE IF s[i] = "\"" THEN ScanString(s, i + 1, <<>>)
    ELSE IF s[i] = "["
         THEN LET j == SkipWhitespace(s, i + 1) IN
              IF j <= Len(s) /\ s[j] = "]" THEN JsonValue("arr", <<>>, j + 1)
              ELSE ParseElements(s, i + 1, <<>>)
    ELSE IF s[i] = "{"
         THEN LET j == SkipWhitespace(s, i + 1) IN
              IF j <= Len(s) /\ s[j] = "}" THEN JsonValue("obj", <<>>, j + 1)
              ELSE ParseMembers(s, i + 1, <<>>)
    ELSE JsonFail

ParseElements(s, from, acc) ==
    LET v == ParseValue(s, from) IN
    IF ~v.ok THEN JsonFail
    ELSE LET j == SkipWhitespace(s, v.next) IN
         IF j > Len(s) THEN JsonFail
         ELSE IF s[j] = "," THEN ParseElements(s, j + 1, Append(acc, v.value))
         ELSE IF s[j] = "]" THEN JsonValue("arr", Append(acc, v.value), j + 1)
         ELSE JsonFail

ParseMembers(s, from, acc) ==
    LET k == SkipWhitespace(s, from) IN
    IF k > Len(s) \/ s[k] # "\"" THEN JsonFail
    ELSE LET key == ScanString(s, k + 1, <<>>) IN
         IF ~key.ok THEN JsonFail
         ELSE LET c == SkipWhitespace(s, key.next) IN
              IF c > Len(s) \/ s[c] # ":" THEN JsonFail
              ELSE LET v == ParseValue(s, c + 1) IN
                   IF ~v.ok THEN JsonFail
                   ELSE LET j == SkipWhitespace(s, v.next)
                            member == [key |-> key.value.items, value |-> v.value]
                        IN IF j > Len(s) THEN JsonFail
                           ELSE IF s[j] = "," THEN ParseMembers(s, j + 1, Append(acc, member))
                           ELSE IF s[j] = "}" THEN JsonValue("obj", Append(acc, member), j + 1)
                           ELSE JsonFail

JsonLoads(s) ==
    LET v == ParseValue(s, 1) IN
    IF v.ok /\ SkipWhitespace(s, v.next) = Len(s) + 1 THEN v ELSE JsonFail

\* dict.get of a parsed object: the last member of that key.
Member(obj, key) ==
    LET at == {k \in 1..Len(obj.items) : obj.items[k].key = <<key>>}
    IN IF at = {} THEN [kind |-> "none", items |-> <<>>]
       ELSE obj.items[CHOOSE k \in at : \A j \in at : j <= k].value

\* SubTask.model_validate: id, objective and expected_output are strings and
\* tools is a list of strings.
ModelValidate(item) ==
    IF item.kind # "obj" THEN [ok |-> FALSE]
    ELSE LET tools == Member(item, "tools") IN
         IF /\ Member(item, "id").kind = "str"
            /\ Member(item, "objective").kind = "str"
            /\ Member(item, "expected_output").kind = "str"
            /\ tools.kind = "arr"
            /\ \A k \in 1..Len(tools.items) : tools.items[k].kind = "str"
         THEN [ok |-> TRUE,
               id |-> Member(item, "id").items,
               objective |-> Member(item, "objective").items,
               tools |-> [k \in 1..Len(tools.items) |-> tools.items[k].items],
               expected_output |-> Member(item, "expected_output").items]
         ELSE [ok |-> FALSE]

\* _parse_sub_tasks on the text of a response: the sub-tasks, or the ValueError.
ParseSubTasksText(text) ==
    LET raw == StripMarkdownJson(text)
        data == JsonLoads(raw)
    IN IF ~data.ok THEN [ok |-> FALSE, tasks |-> <<>>, error |-> "invalid_json"]
       ELSE IF data.value.kind # "arr"
            THEN [ok |-> FALSE, tasks |-> <<>>, error |-> "not_array"]
       ELSE LET items == data.value.items IN
            IF \E k \in 1..Len(items) : ~ModelValidate(items[k]).ok
            THEN [ok |-> FALSE, tasks |-> <<>>, error |-> "invalid_entry"]
            ELSE [ok |-> TRUE, error |-> "none",
                  tasks |-> [k \in 1..Len(items) |-> ModelValidate(items[k])]]

\* The sub-tasks of the plans that are written as text.
MaxPlanItems == 2

\* What an objective says: plain words, balanced and unbalanced braces and
\* brackets, quotes, a backslash at its end.
ObjectiveTexts ==
    {<<"compare">>,
     <<"use", "{", "x", "}">>,
     <<"list", "[", "open">>,
     <<"close", "}", "]">>,
     <<"say", "\"", "{", "\"">>,
     <<"path", "\\">>}

PlanTask(k, objective) ==
    [ok |-> TRUE, id |-> <<Numeral(k)>>, objective |-> objective,
     tools |-> <<<<"search">>, <<"fetch">>>>, expected_output |-> <<"summary">>]

PlanTaskLists ==
    UNION {{[k \in 1..n |-> PlanTask(k, o[k])] : o \in [1..n -> ObjectiveTexts]} :
           n \in 0..MaxPlanItems}

\* A JSON string of the characters.
RECURSIVE Escaped(_)
Escaped(chars) ==
    IF chars = <<>> THEN <<>>
    ELSE (IF Head(chars) \in Escapable THEN <<"\\", Head(chars)>> ELSE <<Head(chars)>>)
         \o Escaped(Tail(chars))

JsonString(chars) == <<"\"">> \o Escaped(chars) \o <<"\"">>

\* One sub-task as a JSON object, the way json.dumps writes it.
TaskJson(t) ==
    <<"{">> \o JsonString(<<"id">>) \o <<":", " ">> \o JsonString(t.id)
    \o <<",", " ">> \o JsonString(<<"objective">>) \o <<":", " ">> \o JsonString(t.objective)
    \o <<",", " ">> \o JsonString(<<"tools">>) \o <<":", " ", "[">>
         \o JsonString(t.tools[1]) \o <<",", " ">> \o JsonString(t.tools[2]) \o <<"]">>
    \o <<",", " ">> \o JsonString(<<"expected_output">>) \o <<":", " ">>
         \o JsonString(t.expected_output)
    \o <<"}">>

\* The array J of the sub-tasks, one per line.
RECURSIVE TaskLines(_)
TaskLines(tasks) ==
    IF tasks = <<>> THEN <<>>
    ELSE <<"nl">> \o TaskJson(Head(tasks))
         \o (IF Len(tasks) > 1 THEN <<",">> ELSE <<"nl">>) \o TaskLines(Tail(tasks))

PlanJson(tasks) == <<"[">> \o TaskLines(tasks) \o <<"]">>

\* The ways a response carries J: alone, between white space, in a fenced
\* block with or without a language tag (the fences on lines of their own),
\* followed by commentary, and both.
Commentary == <<"nl", "nl", "Note", ":", " ", "see", " ", "[", "1", "]", " ", "}">>

Wrappings == {"alone", "padded", "fenced", "fenced_json", "trailing", "fenced_trailing"}

Wrapped(how, j) ==
    CASE how = "alone" -> j
      [] how = "padded" -> <<"nl", " ">> \o j \o <<" ", "nl">>
      [] how = "fenced" -> <<Fence, "nl">> \o j \o <<"nl", Fence>>
      [] how = "fenced_json" -> <<Fence, "json", "nl">> \o j \o <<"nl", Fence, "nl">>
      [] how = "trailing" -> j \o Commentary
      [] how = "fenced_trailing" -> <<Fence, "json", "nl">> \o j \o <<"nl", Fence>> \o Commentary

NotParsed == [ok |-> FALSE, tasks |-> <<>>, error |-> "not_parsed"]

\* _parse_sub_tasks of the response.
ParseResponse ==
    /\ ps_parsed = NotParsed
    /\ ps_raw # <<>>
    /\ ps_parsed' = ParseSubTasksText(ps_raw)
    /\ UNCHANGED <<ps_json, ps_raw, ps_alone>>
    /\ UNCHANGED <<runVars, workerVars, sessVars, textVars, fileVars, listVars, stormVars, progressVars, sinkVars>>

\* _parse_sub_tasks of J alone.
ParseAlone ==
    /\ ps_alone = NotParsed
    /\ ps_json # <<>>
    /\ ps_alone' = ParseSubTasksText(ps_json)
    /\ UNCHANGED <<ps_json, ps_raw, ps_parsed>>
    /\ UNCHANGED <<runVars, workerVars, sessVars, textVars, fileVars, listVars, stormVars, progressVars, sinkVars>>

StartParse ==
    /\ \E tasks \in PlanTaskLists, how \in Wrappings :
          /\ ps_json = PlanJson(tasks)
          /\ ps_raw = Wrapped(how, PlanJson(tasks))
    /\ ps_parsed = NotParsed
    /\ ps_alone = NotParsed

\* No plan text is parsed (the other specifications).
IdleParse ==
    /\ ps_json = <<>>
    /\ ps_raw = <<>>
    /\ ps_parsed = NotParsed
    /\ ps_alone = NotParsed

NextParse == ParseResponse \/ ParseAlone

(***************************************************************************)
(*                  PART 6: THE STATE FILE OF THE REPL                     *)
(***************************************************************************)

\* What the state file holds.  kind: the file is missing, its text is not
\* JSON, its text is a JSON value that is no object (an array, null, a
\* number), or a JSON object; for an object, keys are the keys it has, and
\* session_id and version are the values of "last_session_id" ("": the
\* empty string, also written for an absent key) and of
\* "last_session_version" (0 for an absent key).
StateFile(kind, keys, session_id, version) ==
    [kind |-> kind, keys |-> keys, session_id |-> session_id, version |-> version]

MissingFile == StateFile("missing", {}, "", 0)

\* The session ids of the model.
StateIds == {"session_a", "session_b"}

\* The state files a REPL may find: none, one that is not JSON (cut short,
\* overwritten), one whose JSON is no object, and objects with or without
\* each of the two keys.
StateFiles ==
    {MissingFile, StateFile("not_json", {}, "", 0), StateFile("no_object", {}, "", 0)}
    \cup {StateFile("object", {}, "", 0)}
    \cup {StateFile("object", {"last_session_id"}, id, 0) : id \in StateIds \cup {""}}
    \cup {StateFile("object", {"last_session_version"}, "", v) : v \in 1..MaxVersion}
    \cup {StateFile("object", {"last_session_id", "last_session_version"}, id, v) :
            id \in StateIds \cup {""}, v \in 1..MaxVersion}

\* A ResearchSession as the manager sees it; query tells apart two session
\* objects of one id and version.
ManagedSessions ==
    [session_id : StateIds, version : 1..MaxVersion, query : {"q1", "q2"}]

NoManagedSession == [session_id |-> "none", version |-> 0, query |-> "none"]

\* What a call of load_last_session ends with: None, a tuple, an exception.
Loaded(kind, session_id, version) ==
    [kind |-> kind, session_id |-> session_id, version |-> version]

NoLoadYet == [of |-> MissingFile, result |-> Loaded("not_called", "", 0)]

\* ReplState.save_active_session: json.dumps of the three keys, written over
\* the file.
SaveActiveSession(file, session_id, version) ==
    StateFile("object", {"last_session_id", "last_session_version"},
              session_id, version)

\* A clear that leaves the state file where it is.
ClearKeepsFile(file) == file

\* ReplState.clear: unlink the file if it exists.
ClearStateFile(file) == MissingFile

\* ReplState.load_last_session.  A missing file gives None; json.loads raises
\* JSONDecodeError, which is caught, on a text that is not JSON; state.get on
\* a value that is no object raises AttributeError, which is not caught; an
\* object gives the tuple when its session id is truthy, with the version
\* defaulting to 1.
LoadLastSession(file) ==
    IF file.kind = "missing" THEN Loaded("none", "", 0)
    ELSE IF file.kind = "not_json" THEN Loaded("none", "", 0)
    ELSE IF file.kind = "no_object" THEN Loaded("raised", "AttributeError", 0)
    ELSE LET session_id == IF "last_session_id" \in file.keys
                           THEN file.session_id ELSE ""
             version == IF "last_session_version" \in file.keys
                        THEN file.version ELSE 1
         IN IF session_id # "" THEN Loaded("pair", session_id, version)
            ELSE Loaded("none", "", 0)

\* SessionManager.has_active_session
HasActiveSession == sf_active # NoManagedSession

\* SessionManager.set_active_session
ManagerSetActiveSession ==
    /\ \E session \in ManagedSessions :
        /\ sf_active' = session
        /\ sf_file' = SaveActiveSession(sf_file, session.session_id, session.version)
        /\ sf_lastSet' = session
    /\ sf_last' = "set"
    /\ UNCHANGED sf_loaded
    /\ UNCHANGED <<runVars, workerVars, sessVars, textVars, parseVars, listVars, stormVars, progressVars, sinkVars>>

\* SessionManager.clear_active_session
ManagerClearActiveSession ==
    /\ sf_active' = NoManagedSession
    /\ sf_file' = ClearStateFile(sf_file)
    /\ sf_last' = "clear"
    /\ UNCHANGED <<sf_loaded, sf_lastSet>>
    /\ UNCHANGED <<runVars, workerVars, sessVars, textVars, parseVars, listVars, stormVars, progressVars, sinkVars>>

\* A call of self.state.load_last_session().
CallLoadLastSession ==
    /\ sf_loaded' = [of |-> sf_file, result |-> LoadLastSession(sf_file)]
    /\ sf_loaded' # sf_loaded
    /\ UNCHANGED <<sf_file, sf_active, sf_last, sf_lastSet>>
    /\ UNCHANGED <<runVars, workerVars, sessVars, textVars, parseVars, listVars, stormVars, progressVars, sinkVars>>

\* SessionManager() in a home directory with any state file.
StartFile ==
    /\ sf_file \in StateFiles
    /\ sf_active = NoManagedSession
    /\ sf_loaded = NoLoadYet
    /\ sf_last = "none"
    /\ sf_lastSet = NoManagedSession

\* No state file is part of the behaviour (the other specifications).
IdleFile ==
    /\ sf_file = MissingFile
    /\ sf_active = NoManagedSession
    /\ sf_loaded = NoLoadYet
    /\ sf_last = "none"
    /\ sf_lastSet = NoManagedSession

NextFile ==
    \/ ManagerSetActiveSession
    \/ ManagerClearActiveSession
    \/ CallLoadLastSession

(***************************************************************************)
(*                 PART 7: THE SESSIONS OF A VAULT LISTED                  *)
(***************************************************************************)

\* What the vault directory can hold under a name session_*:
\*   file         something that is no directory;
\*   no_moc       a session directory without session.md: write_session
\*                makes the directories and writes the worker notes first,
\*                session.md last;
\*   cut_moc      session.md without a closed frontmatter block (empty, or
\*                cut short while written): _parse_frontmatter returns {};
\*   partial_meta session.md whose frontmatter lacks one of the seven keys;
\*   bare         a complete session.md in a directory whose workers or
\*                reports directories are missing;
\*   complete     a session as write_session leaves it.
EntryKinds == {"file", "no_moc", "cut_moc", "partial_meta", "bare", "complete"}

\* session.md holds the seven keys list_sessions reads.
Listable(entry) == entry.kind \in {"bare", "complete"}

\* The vaults of the model: up to MaxEntries entries, named 1, 2, ... in the
\* order of sorted(self.vault_path.glob("session_*")).
Vaults ==
    UNION {{[k \in 1..n |-> [name |-> k, kind |-> kinds[k]]] :
                kinds \in [1..n -> EntryKinds]} : n \in 0..MaxEntries}

NotListed == [kind |-> "not_called", sessions |-> <<>>]

\* One pass of the loop of list_sessions: the entry is skipped when it is no
\* directory or has no session.md; otherwise the frontmatter is parsed and
\* its seven keys are read, and a missing key raises KeyError.
ListEntry(entry) ==
    IF entry.kind = "file" THEN "skipped"
    ELSE IF entry.kind = "no_moc" THEN "skipped"
    ELSE IF entry.kind \in {"cut_moc", "partial_meta"} THEN "raised"
    ELSE "listed"

\* SessionLoader.list_sessions: the loop over the entries; an exception of
\* one pass ends the call.
RECURSIVE ListFrom(_, _, _)
ListFrom(entries, k, sessions) ==
    IF k > Len(entries) THEN [kind |-> "returned", sessions |-> sessions]
    ELSE LET pass == ListEntry(entries[k])
         IN IF pass = "raised" THEN [kind |-> "raised", sessions |-> <<>>]
            ELSE IF pass = "listed"
            THEN ListFrom(entries, k + 1, Append(sessions, entries[k].name))
            ELSE ListFrom(entries, k + 1, sessions)

ListSessions(entries) == ListFrom(entries, 1, <<>>)

\* A call of loader.list_sessions().
CallListSessions ==
    /\ ls_listed = NotListed
    /\ ls_listed' = ListSessions(ls_entries)
    /\ UNCHANGED ls_entries
    /\ UNCHANGED <<runVars, workerVars, sessVars, textVars, parseVars, fileVars, stormVars, progressVars, sinkVars>>

StartList == ls_entries \in Vaults /\ ls_listed = NotListed

\* No listing is part of the behaviour (the other specifications).
IdleList == ls_entries = <<>> /\ ls_listed = NotListed

NextList == CallListSessions

(***************************************************************************)
(*               PART 8: ONE INTERVIEW OF THE STORM DEMO                   *)
(***************************************************************************)

\* A message of the interview: who speaks, and whether the text holds the
\* closing phrase "thank you so much".
Utterance(name, thanks) == [name |-> name, thanks |-> thanks]

\* k question/answer pairs: q1, a1, ..., qk, ak.
RECURSIVE Pairs(_)
Pairs(k) ==
    IF k = 0 THEN <<>>
    ELSE Pairs(k - 1) \o <<Utterance("WikiWriter", FALSE),
                           Utterance("TopicExpert", FALSE)>>

\* The questions of the WikiWriter among the messages.
Questions(msgs) == Cardinality({k \in 1..Len(msgs) : msgs[k].name = "WikiWriter"})

\* should_continue_interview: state.get("turn_count", 0) is compared with
\* the module's MAX_CONV_TURNS; then the closing phrase of a last message of
\* the WikiWriter ends the interview.
ShouldContinueInterview(msgs, turn_count, max_turns) ==
    IF OrZero(turn_count) >= MAX_CONV_TURNS THEN "compile_interview"
    ELSE IF msgs # <<>> /\ msgs[Len(msgs)].name = "WikiWriter" /\ msgs[Len(msgs)].thanks
    THEN "compile_interview"
    ELSE "answer_question"

\* The values of max_turns a state is given.
MaxTurnsValues == {MAX_CONV_TURNS, MAX_CONV_TURNS + 2}

\* ask_question: the LLM's question is appended and turn_count becomes
\* state.get("turn_count", 0) + 1; the router runs next.
AskQuestion ==
    /\ iv_node = "ask_question"
    /\ \E thanks \in BOOLEAN :
        iv_messages' = Append(iv_messages, Utterance("WikiWriter", thanks))
    /\ iv_turn_count' = Some(OrZero(iv_turn_count) + 1)
    /\ iv_asked' = iv_asked + 1
    /\ iv_node' = "should_continue_interview"
    /\ UNCHANGED <<iv_max_turns, iv_route>>
    /\ UNCHANGED <<runVars, workerVars, sessVars, textVars, parseVars, fileVars, listVars, progressVars, sinkVars>>

\* The conditional edge: should_continue_interview on the state.
Route ==
    /\ iv_node = "should_continue_interview"
    /\ iv_route' = ShouldContinueInterview(iv_messages, iv_turn_count, iv_max_turns)
    /\ iv_node' = iv_route'
    /\ UNCHANGED <<iv_messages, iv_max_turns, iv_turn_count, iv_asked>>
    /\ UNCHANGED <<runVars, workerVars, sessVars, textVars, parseVars, fileVars, listVars, progressVars, sinkVars>>

\* answer_question: the expert's answer is appended; ask_question runs next.
AnswerQuestion ==
    /\ iv_node = "answer_question"
    /\ iv_messages' = Append(iv_messages, Utterance("TopicExpert", FALSE))
    /\ iv_node' = "ask_question"
    /\ UNCHANGED <<iv_max_turns, iv_turn_count, iv_route, iv_asked>>
    /\ UNCHANGED <<runVars, workerVars, sessVars, textVars, parseVars, fileVars, listVars, progressVars, sinkVars>>

\* compile_interview: the summary is written and the graph ends.
CompileInterview ==
    /\ iv_node = "compile_interview"
    /\ iv_node' = "end"
    /\ UNCHANGED <<iv_messages, iv_max_turns, iv_turn_count, iv_route, iv_asked>>
    /\ UNCHANGED <<runVars, workerVars, sessVars, textVars, parseVars, fileVars, listVars, progressVars, sinkVars>>

\* The state of an interview: the one initiate_interviews sends to the graph
\* (no messages, turn_count 0), or a state handed to the router itself with
\* k question/answer pairs, any of the values of max_turns, and the key
\* turn_count absent or counting the pairs.
StartInterview ==
    /\ iv_route = "none"
    /\ iv_asked = 0
    /\ iv_max_turns \in MaxTurnsValues
    /\ \/ /\ iv_node = "ask_question"
          /\ iv_messages = <<>>
          /\ iv_turn_count = Some(0)
       \/ /\ iv_node = "should_continue_interview"
          /\ \E k \in 0..MAX_CONV_TURNS, last \in {"answer", "question", "thanks"} :
                /\ iv_messages =
                     IF last = "answer" THEN Pairs(k)
                     ELSE Append(Pairs(k), Utterance("WikiWriter", last = "thanks"))
                /\ iv_turn_count \in {None, Some(Questions(iv_messages))}

\* No interview is part of the behaviour (the other specifications).
IdleStorm ==
    /\ iv_node = "idle"
    /\ iv_messages = <<>>
    /\ iv_max_turns = 0
    /\ iv_turn_count = None
    /\ iv_route = "none"
    /\ iv_asked = 0

NextStorm ==
    \/ AskQuestion
    \/ Route
    \/ AnswerQuestion
    \/ CompileInterview

(***************************************************************************)
(*              PART 9: THE PROGRESS SINK UNDER ITS LOCK                   *)
(***************************************************************************)

\* The threads that deliver callbacks to one LiveProgress, and the worker
\* ids of the callbacks.
Threads == {1, 2}

SinkIds == {1, 2}

CallbackKinds == {"start", "tool_use", "complete", "error"}

NoCall == [kind |-> "none", id |-> 0]

\* self.workers[worker_id], absent before on_worker_start.
NoEntry == [status |-> "absent", tool_count |-> 0]

NoSnapshot == [taken |-> FALSE, locked |-> FALSE, workers |-> <<>>, log |-> <<>>]

\* A lock that lets every thread in.
LockIgnored(owner, t) == TRUE

\* threading.RLock: free, or held by the thread that asks for it.
LockAvailable(owner, t) == owner \in {0, t}

\* A sink that has received earlier callbacks: both workers started and
\* used each tool four times, which leaves ten entries in the activity log.
UsedBefore == 4

EarlierLog == [k \in 1..ActivityLogLimit |-> IF k <= 5 THEN 1 ELSE 2]

\* The tool-use callbacks received per worker since its start callback, once
\* the callback call has entered the sink.
ReceivedAfter(call, entry) ==
    IF call.kind = "start" THEN [sk_received EXCEPT ![call.id] = 0]
    ELSE IF call.kind = "tool_use" /\ entry # NoEntry
    THEN [sk_received EXCEPT ![call.id] = @ + 1]
    ELSE sk_received

\* The callbacks delivered or under way, on all threads.
CallbacksBegun ==
    sk_done[1] + sk_done[2] + Cardinality({t \in Threads : sk_pc[t] # "idle"})

\* A callback arrives on a thread: with self._lock is about to be entered.
CallbackArrives(t) ==
    /\ sk_pc[t] = "idle" /\ CallbacksBegun < MaxCallbacks
    /\ \E kind \in CallbackKinds, id \in SinkIds :
        sk_call' = [sk_call EXCEPT ![t] = [kind |-> kind, id |-> id]]
    /\ sk_pc' = [sk_pc EXCEPT ![t] = "enter"]
    /\ UNCHANGED <<sk_done, sk_owner, sk_workers, sk_log, sk_local, sk_received, sk_snap>>
    /\ UNCHANGED <<runVars, workerVars, sessVars, textVars, parseVars, fileVars, listVars, stormVars, progressVars>>

\* with self._lock, and for on_worker_tool_use the test of worker_id and the
\* read of tool_count; for the other callbacks the test and the assignment.
EnterAndRead(t) ==
    /\ sk_pc[t] = "enter"
    /\ LockAvailable(sk_owner, t)
    /\ sk_owner' = t
    /\ LET id == sk_call[t].id
           kind == sk_call[t].kind
       IN IF kind = "start"
          THEN /\ sk_workers' = [sk_workers EXCEPT ![id] =
                                    [status |-> "starting", tool_count |-> 0]]
               /\ sk_pc' = [sk_pc EXCEPT ![t] = "log"]
               /\ UNCHANGED sk_local
          ELSE IF sk_workers[id] = NoEntry
          THEN /\ sk_pc' = [sk_pc EXCEPT ![t] = "release"]
               /\ UNCHANGED <<sk_workers, sk_local>>
          ELSE IF kind = "tool_use"
          THEN /\ sk_local' = [sk_local EXCEPT ![t] = sk_workers[id].tool_count]
               /\ sk_workers' = [sk_workers EXCEPT ![id].status = "active"]
               /\ sk_pc' = [sk_pc EXCEPT ![t] = "write"]
          ELSE /\ sk_workers' = [sk_workers EXCEPT ![id].status = kind]
               /\ sk_pc' = [sk_pc EXCEPT ![t] = "log"]
               /\ UNCHANGED sk_local
    /\ sk_received' = ReceivedAfter(sk_call[t], sk_workers[sk_call[t].id])
    /\ UNCHANGED <<sk_call, sk_done, sk_log, sk_snap>>
    /\ UNCHANGED <<runVars, workerVars, sessVars, textVars, parseVars, fileVars, listVars, stormVars, progressVars>>

\* self.workers[worker_id]["tool_count"] = current_count + 1
WriteCount(t) ==
    /\ sk_pc[t] = "write"
    /\ sk_workers' = [sk_workers EXCEPT ![sk_call[t].id].tool_count = sk_local[t] + 1]
    /\ sk_pc' = [sk_pc EXCEPT ![t] = "log"]
    /\ UNCHANGED <<sk_call, sk_done, sk_owner, sk_log, sk_local, sk_received, sk_snap>>
    /\ UNCHANGED <<runVars, workerVars, sessVars, textVars, parseVars, fileVars, listVars, stormVars, progressVars>>

\* _log_activity: self.activity_log.append(...)
LogActivity(t) ==
    /\ sk_pc[t] = "log"
    /\ sk_log' = Append(sk_log, sk_call[t].id)
    /\ sk_pc' = [sk_pc EXCEPT ![t] = "trim"]
    /\ UNCHANGED <<sk_call, sk_done, sk_owner, sk_workers, sk_local, sk_received, sk_snap>>
    /\ UNCHANGED <<runVars, workerVars, sessVars, textVars, parseVars, fileVars, listVars, stormVars, progressVars>>

\* _log_activity: if len(self.activity_log) > 10: self.activity_log.pop(0)
TrimLog(t) ==
    /\ sk_pc[t] = "trim"
    /\ sk_log' = IF Len(sk_log) > ActivityLogLimit THEN Tail(sk_log) ELSE sk_log
    /\ sk_pc' = [sk_pc EXCEPT ![t] = "release"]
    /\ UNCHANGED <<sk_call, sk_done, sk_owner, sk_workers, sk_local, sk_received, sk_snap>>
    /\ UNCHANGED <<runVars, workerVars, sessVars, textVars, parseVars, fileVars, listVars, stormVars, progressVars>>

\* The end of the with block of the callback.
Release(t) ==
    /\ sk_pc[t] = "release"
    /\ sk_owner' = IF sk_owner = t THEN 0 ELSE sk_owner
    /\ sk_pc' = [sk_pc EXCEPT ![t] = "render"]
    /\ UNCHANGED <<sk_call, sk_done, sk_workers, sk_log, sk_local, sk_received, sk_snap>>
    /\ UNCHANGED <<runVars, workerVars, sessVars, textVars, parseVars, fileVars, listVars, stormVars, progressVars>>

\* _schedule_update: self.live.update(self._render()); _render copies
\* self.workers and self.activity_log inside with self._lock and builds the
\* display from the copies.
Render(t) ==
    /\ sk_pc[t] = "render"
    /\ LockAvailable(sk_owner, t)
    /\ sk_snap' = [sk_snap EXCEPT ![t] =
                      [taken |-> TRUE,
                       locked |-> \A u \in Threads \ {t} :
                                     sk_pc[u] \in {"idle", "enter", "render"},
                       workers |-> sk_workers, log |-> sk_log]]
    /\ sk_pc' = [sk_pc EXCEPT ![t] = "idle"]
    /\ sk_done' = [sk_done EXCEPT ![t] = @ + 1]
    /\ sk_call' = [sk_call EXCEPT ![t] = NoCall]
    /\ UNCHANGED <<sk_owner, sk_workers, sk_log, sk_local, sk_received>>
    /\ UNCHANGED <<runVars, workerVars, sessVars, textVars, parseVars, fileVars, listVars, stormVars, progressVars>>

\* No callback is on its way.
SinkAtRest ==
    /\ sk_pc = [t \in Threads |-> "idle"]
    /\ sk_call = [t \in Threads |-> NoCall]
    /\ sk_done = [t \in Threads |-> 0]
    /\ sk_owner = 0
    /\ sk_local = [t \in Threads |-> 0]
    /\ sk_snap = [t \in Threads |-> NoSnapshot]

\* LiveProgress(query) as constructed, or after earlier callbacks.
StartSink ==
    /\ SinkAtRest
    /\ \/ /\ sk_workers = [id \in SinkIds |-> NoEntry]
          /\ sk_log = <<>>
          /\ sk_received = [id \in SinkIds |-> 0]
       \/ /\ sk_workers = [id \in SinkIds |->
                              [status |-> "active", tool_count |-> UsedBefore]]
          /\ sk_log = EarlierLog
          /\ sk_received = [id \in SinkIds |-> UsedBefore]

\* No sink is part of the behaviour (the other specifications).
IdleSink ==
    /\ SinkAtRest
    /\ sk_workers = [id \in SinkIds |-> NoEntry]
    /\ sk_log = <<>>
    /\ sk_received = [id \in SinkIds |-> 0]

NextSink ==
    \E t \in Threads :
        \/ CallbackArrives(t)
        \/ EnterAndRead(t)
        \/ WriteCount(t)
        \/ LogActivity(t)
        \/ TrimLog(t)
        \/ Release(t)
        \/ Render(t)

\* self.progress has received no callback.
NoCallbacks == callbacks = [id \in 1..MaxTasks |-> <<>>]

\* None of the parts beside the research agent is part of the behaviour.
IdleSide == IdleFile /\ IdleList /\ IdleStorm /\ NoCallbacks /\ IdleSink

(***************************************************************************)
(*                          THE SPECIFICATIONS                             *)
(***************************************************************************)

InitRun == StartRun /\ IdleWorker /\ IdleSession /\ IdleText /\ IdleParse /\ IdleSide

SpecRun == InitRun /\ [][NextRun]_vars

IdleAgent ==
    IdleRun /\ IdleWorker /\ IdleSession /\ IdleText /\ IdleParse /\ NoCallbacks

InitFile == StartFile /\ IdleAgent /\ IdleList /\ IdleStorm /\ IdleSink

SpecFile == InitFile /\ [][NextFile]_vars

InitList == StartList /\ IdleAgent /\ IdleFile /\ IdleStorm /\ IdleSink

SpecList == InitList /\ [][NextList]_vars

InitStorm == StartInterview /\ IdleAgent /\ IdleFile /\ IdleList /\ IdleSink

SpecStorm == InitStorm /\ [][NextStorm]_vars

SpecStart == InitRun /\ [][NextStart]_vars

InitSink == StartSink /\ IdleAgent /\ IdleFile /\ IdleList /\ IdleStorm

SpecSink == InitSink /\ [][NextSink]_vars

InitWorker == StartWorker /\ IdleRun /\ IdleSession /\ IdleText /\ IdleParse /\ IdleSide

SpecWorker == InitWorker /\ [][NextWorker]_vars

InitLongRun == StartLongRun /\ IdleRun /\ IdleSession /\ IdleText /\ IdleParse /\ IdleSide

SpecLongRun == InitLongRun /\ [][NextWorker]_vars

InitSession == StartSession /\ IdleRun /\ IdleWorker /\ IdleText /\ IdleParse /\ IdleSide

SpecSession == InitSession /\ [][NextSession]_vars

Spec == SpecRun

\* What the scheduling of a run guarantees.  The event loop runs every node
\* task that is ready, and the graph runs spawn and the fan-in once their
\* predecessors are done.  The wait for worker.execute ends by its return or,
\* after 1800 seconds, by wait_for's timer.  The awaited LLM calls of analysis,
\* plan, _compress and synthesis stand under no timer of the run.
FairRun ==
    /\ WF_vars(SpawnWorkers)
    /\ WF_vars(FanIn)
    /\ \A i \in 1..MaxTasks :
          /\ WF_vars(WorkerStart(i))
          /\ WF_vars(WorkerExecuteReturns(i) \/ WorkerTimeout(i))

SpecRunFair == InitRun /\ [][NextRun]_vars /\ FairRun

InitPlan == StartPlan /\ IdleWorker /\ IdleSession /\ IdleText /\ IdleParse /\ IdleSide

SpecPlan == InitPlan /\ [][NextPlan]_vars

InitText == StartText /\ IdleRun /\ IdleWorker /\ IdleSession /\ IdleParse /\ IdleSide

SpecText == InitText /\ [][NextText]_vars

InitParse == StartParse /\ IdleRun /\ IdleWorker /\ IdleSession /\ IdleText /\ IdleSide

SpecParse == InitParse /\ [][NextParse]_vars

(***************************************************************************)
(*                  Properties of the orchestrator run                     *)
(***************************************************************************)

\* Worker i ended by an exception or a timeout: inside WorkerAgent.execute
\* (exec_error), in the rest of the worker node (node_error), or by the
\* 30-minute timeout.
WorkerFailed(i) ==
    /\ wpc[i] = "returned"
    /\ ret[i].error \in {"exec_error", "node_error", "timeout"}

\* C1 (fan-out isolation): in a run that spawned N >= 2 workers of which one
\* raised or timed out, no exception of a worker leaves research(); every
\* other worker runs to its own completion; once the run has ended, synthesis
\* was called with the summary of each worker that did not fail, and
\* research() returned its result (the only exception that can still end the
\* run is one raised by the lead's own synthesis LLM call).
C1_FanOutIsolation ==
    (Len(sub_tasks) >= 2 /\ \E i \in Workers : WorkerFailed(i)) =>
        /\ raisedBy # "worker"
        /\ node = "end" =>
            /\ synthCalls = 1
            /\ outcome = "returned" \/ raisedBy = "synthesize"
            /\ \A j \in Workers :
                /\ wpc[j] = "returned"
                /\ ~WorkerFailed(j) =>
                     /\ ret[j].summary.text \in {"answer", "incomplete"}
                     /\ ret[j].summary \in Range(synthInput)

\* A run of three workers, one timed out and one failed in its node, that
\* returned a report built from the third worker's own summary.
C1_Witness ==
    /\ outcome = "returned"
    /\ Len(sub_tasks) = 3
    /\ \E i, j, k \in Workers :
        /\ ret[i].error = "timeout"
        /\ ret[j].error = "node_error"
        /\ ret[k].error = "none"
        /\ ret[k].summary \in Range(synthInput)

\* C2 (fan-in barrier): when synthesis is about to start or has started,
\* every spawned worker has returned (success, failure or timeout) and
\* worker_results holds exactly one entry per spawned sub-task.
C2_SynthesisAfterAllWorkers ==
    (node = "synthesize" \/ synthCalls > 0) =>
        /\ \A i \in Workers : wpc[i] = "returned"
        /\ Len(worker_results) = Len(sub_tasks)
        /\ \A i \in Workers :
             Cardinality({k \in 1..Len(worker_results) :
                             worker_results[k] = ret[i]}) = 1

\* Synthesis about to start over three workers that ended in three different
\* terminal states.
C2_Witness ==
    /\ node = "synthesize"
    /\ Len(worker_results) = 3
    /\ {worker_results[k].error : k \in 1..3} = {"none", "timeout", "exec_error"}

\* C9 (bounded plan retries): plan creation makes at most 3 LLM calls; only
\* the last call's response can be a valid task array, and then the plan step
\* has returned; after a failed call with fewer than 3 calls made the plan
\* step is still retrying; after 3 failed calls research() has raised exactly
\* one error and no worker was spawned.
C9_PlanRetries ==
    LET n == Len(planLog)
        allFailed == \A k \in 1..n : ~planLog[k]
    IN
    /\ planCalls = n
    /\ n <= 3
    /\ \A k \in 1..(n - 1) : ~planLog[k]
    /\ (n >= 1 /\ planLog[n]) => (node # "plan" /\ raisedBy # "plan")
    /\ (n >= 1 /\ n < 3 /\ allFailed) => (node = "plan" /\ outcome = "running")
    /\ (n = 3 /\ allFailed) =>
          /\ outcome = "raised"
          /\ raisedBy = "plan"
          /\ errorsRaised = 1
          /\ sub_tasks = <<>>
          /\ \A i \in 1..MaxTasks : wpc[i] = "idle"

\* Three failed plan calls ended the run.
C9_Witness ==
    /\ planLog = <<FALSE, FALSE, FALSE>>
    /\ raisedBy = "plan"

\* The analysis response is empty, or does not hold a QueryAnalysis.
EmptyOrMalformed(resp) ==
    /\ resp.t = "content"
    /\ resp.shape # "object" \/ resp.fields # AllFields

\* C10 (analysis fails fast): the analysis is called at most once, and when
\* its response is empty or malformed research() has raised one error after
\* that single call, with no plan call made and no worker spawned.
C10_AnalysisNotRetried ==
    /\ analysisCalls <= 1
    /\ EmptyOrMalformed(analysisResp) =>
          /\ outcome = "raised"
          /\ raisedBy = "analyze"
          /\ errorsRaised = 1
          /\ analysisCalls = 1
          /\ planCalls = 0
          /\ sub_tasks = <<>>
          /\ \A i \in 1..MaxTasks : wpc[i] = "idle"

\* A JSON object without its complexity field ended the run.
C10_Witness ==
    /\ analysisResp.shape = "object"
    /\ "complexity" \notin analysisResp.fields
    /\ outcome = "raised"

(***************************************************************************)
(*                    Properties of the worker's loop                      *)
(***************************************************************************)

\* C3 (iteration bound): a worker whose LLM never emits the answer delimiter
\* and never fails makes at most max_iterations LLM calls; once it has made
\* max_iterations calls it thinks no more; and when it has terminated it has
\* made exactly max_iterations calls and its result is the incomplete report
\* with metadata error = max_iterations.
C3_ExhaustedAfterMaxIterations ==
    (~answerEmitted /\ ~llmFailed) =>
        /\ llmCalls <= max_iterations
        /\ llmCalls = max_iterations => wk \in {"acting", "done"}
        /\ wk = "done" =>
            /\ llmCalls = max_iterations
            /\ iterations = max_iterations
            /\ worker_result.kind = "incomplete"
            /\ worker_result.error = "max_iterations"

\* A worker built with the largest max_iterations that called tools, fetched a
\* page, never answered and terminated.
C3_Witness ==
    /\ wk = "done"
    /\ ~answerEmitted /\ ~llmFailed
    /\ max_iterations = MaxIter
    /\ llmCalls = MaxIter
    /\ visited_urls # {}
    /\ \E k \in 1..Len(react_iterations) : react_iterations[k].actions = MaxToolCalls
    /\ worker_result.error = "max_iterations"

\* The sources of the result are the URLs of S, each once.
SourcesAre(S) ==
    /\ Range(worker_result.sources) = S
    /\ Len(worker_result.sources) = Cardinality(S)

C5_NewVersionOfLoadedSession ==
    (lastOp.op \in {"continue", "expand", "cli_expand"} /\ lastOp.yielded) =>
        /\ lastOp.object.version = lastOp.V
        /\ lastOp.new # lastOp.object
        /\ lastOp.new.session_id = lastOp.object.session_id
        /\ lastOp.new.version = lastOp.V + 1
        /\ lastOp.new.parent_session_id = ParentId(lastOp.object.session_id, lastOp.V)

\* An expand of the REPL on the reloaded version 2 of a session, itself the
\* child of version 1, that yielded and saved version 3.
C5_Witness ==
    /\ lastOp.op = "expand" /\ lastOp.yielded /\ lastOp.saved
    /\ lastOp.V = 2
    /\ lastOp.object.parent_session_id = ParentId("s1", 1)
    /\ lastOp.new.version = 3
    /\ lastOp.new.parent_session_id = ParentId("s1", 2)

\* C6 (the stored version is kept): after a continue or expand on version V
\* has saved version V + 1, load(session_id, V) returns what it returned
\* before the command: the session of version V, with the same parent,
\* cost, report and workers.
C6_StoredVersionUnchanged ==
    (lastOp.op \in {"continue", "expand"} /\ lastOp.saved) =>
        /\ lastOp.after.version = lastOp.V
        /\ lastOp.after.parent_session_id = lastOp.before.parent_session_id
        /\ lastOp.after.cost = lastOp.before.cost
        /\ lastOp.after.report = lastOp.before.report
        /\ lastOp.after.workers = lastOp.before.workers

\* The version that precedes the k-th version the commands yielded for sid:
\* the stored version 1, or the version yielded just before.
PrecedingVersion(sid, k) ==
    IF k = 1 THEN 1 ELSE produced[sid][k - 1].version

\* C7 (versions strictly increase): of the versions that continue, expand
\* and recompile yield for one session_id, each is greater than the first
\* version and than every version yielded before it, and its parent names
\* the version that immediately precedes it.
C7_VersionsStrictlyIncrease ==
    \A sid \in Sids : \A k \in 1..Len(produced[sid]) :
        /\ produced[sid][k].version > 1
        /\ \A j \in 1..(k - 1) : produced[sid][k].version > produced[sid][j].version
        /\ produced[sid][k].parent = ParentId(sid, PrecedingVersion(sid, k))

\* C8 (recompile does not mutate): after a recompile of version V, a new
\* session object of version V + 1 exists, the loaded session object still
\* has version V and the report it was loaded with, and the stored record
\* of version V is what it was.
C8_RecompileKeepsHistory ==
    (lastOp.op = "recompile" /\ lastOp.yielded) =>
        /\ lastOp.new.session_id = lastOp.sid
        /\ lastOp.new.version = lastOp.V + 1
        /\ lastOp.object.version = lastOp.V
        /\ lastOp.object.report = LoadSession(vault, lastOp.sid, 1).report
        /\ lastOp.after = lastOp.before

\* The plan step has accepted a response (and research() went on from it).
PlanAccepted ==
    /\ planCalls > 0
    /\ node \in {"spawn", "workers", "synthesize", "end"}
    /\ raisedBy # "plan"

\* The worker node tasks the fan-out has scheduled.
Spawned == {i \in 1..MaxTasks : wpc[i] # "idle"}

\* C11 (the plan has the derived size): for every plan response that the plan
\* step accepts, the number of sub-tasks, the number of workers spawned and
\* metadata.workers of the returned result all equal the worker count N
\* derived from the complexity score.
C11_PlanHasDerivedWorkerCount ==
    PlanAccepted =>
        /\ Len(sub_tasks) = num_workers
        /\ node # "spawn" => Cardinality(Spawned) = num_workers
        /\ outcome = "returned" =>
              /\ "workers" \in DOMAIN metadata
              /\ metadata.workers = num_workers

\* C12 (worker count by complexity): for every complexity c in [0, 1] the
\* derived worker count is 1 if c < 0.3, 3 if 0.3 <= c < 0.6 and 5 if
\* c >= 0.6, so no lower complexity has a higher count.
C12_WorkerCountByComplexity ==
    planCalls > 0 =>
        /\ complexity_score < 30 => num_workers = 1
        /\ (30 <= complexity_score /\ complexity_score < 60) => num_workers = 3
        /\ complexity_score >= 60 => num_workers = 5
        /\ \A lower \in 0..complexity_score : NumWorkers(lower) <= num_workers

\* The plan step has derived 3 workers from a complexity inside the middle
\* band, away from both thresholds.
C12_Witness ==
    /\ planCalls > 0
    /\ complexity_score = 45
    /\ num_workers = 3

\* The failure details a list of worker results holds: which worker failed
\* and its error.
FailuresIn(results) ==
    {[task_id |-> results[k].task_id, error |-> results[k].error] :
        k \in {j \in 1..Len(results) :
                 results[j].error \in {"exec_error", "node_error", "timeout"}}}

\* The failure details the result's metadata holds, under the worker_results
\* key that callers read them from.
FailureDetails(m) ==
    IF "worker_results" \in DOMAIN m THEN FailuresIn(m.worker_results) ELSE {}

\* C13 (partial failure is reported): when k >= 1 of the N workers failed by
\* exception or timeout, no worker's exception ends research(); the result it
\* returns has a non-empty report, and its metadata holds the failure details
\* (which worker, which error) of each failed worker, so that it shows N - k
\* successful and k failed contributions.
C13_FailureDetailsInMetadata ==
    (node = "end" /\ \E i \in Workers : WorkerFailed(i)) =>
        /\ raisedBy # "worker"
        /\ outcome = "returned" =>
              /\ report # ""
              /\ metadata.workers = Len(sub_tasks)
              /\ FailureDetails(metadata) = FailuresIn(worker_results)
              /\ Cardinality(FailureDetails(metadata)) =
                    Cardinality({i \in Workers : WorkerFailed(i)})

\* C14 (no step of a worker is waited for forever): a worker node that has
\* been spawned ends, by the return of its steps or by the 30-minute timeout
\* (then with a failure-shaped result whose error is timeout), so research()
\* never waits forever on any step performed for a worker.
C14_WorkerStepsTerminate ==
    /\ \A i \in 1..MaxTasks :
          (wpc[i] \in {"spawned", "executing", "compressing"})
              ~> (wpc[i] = "returned" \/ outcome # "running")
    /\ [](\A i \in 1..MaxTasks :
            (wpc[i] = "returned" /\ ret[i].error = "timeout") =>
                ret[i].summary.text = "timed_out" /\ ret[i].sources = <<>>)

\* The error message names the malformed response as the cause of the failure.
NamesMalformedResponse(msg) ==
    \E k \in 1..Len(msg) :
        msg[k] = "The API returned malformed JSON. This usually means:"

\* C17 (plan-creation failure is descriptive): when the 3 attempts at the plan
\* are used up, research() raises a single error; when the attempts failed
\* because the response was not parseable JSON, the message of that error names
\* the malformed response as the cause, with the likely reasons for it.
C17_PlanFailureNamesCause ==
    (raisedBy = "plan") =>
        /\ errorsRaised = 1
        /\ planCalls = max_retries
        /\ last_error = "invalid_json" =>
              NamesMalformedResponse(PlanErrorMessage(last_error))

\* C15 (the session's head survives the round trip): load(save(session))
\* reproduces session_id, version, parent_session_id, query and total cost
\* exactly, for every saved session, also of a version greater than 1.
C15_SessionRoundTrip ==
    rt_phase = "loaded" =>
        /\ ~rt_loaded.raised
        /\ rt_loaded.session_id = rt_session.session_id
        /\ rt_loaded.version = rt_session.version
        /\ rt_loaded.parent_session_id = rt_session.parent_session_id
        /\ rt_loaded.query = rt_session.query
        /\ rt_loaded.cost = rt_session.cost

\* C16 (the workers survive the round trip): load(save(session)) reproduces,
\* for every worker of the session, its objective, status, sources and
\* final_output exactly (stated for the loads that return a session).
C16_WorkerRoundTrip ==
    (rt_phase = "loaded" /\ ~rt_loaded.raised) =>
        /\ Len(rt_loaded.workers) = Len(rt_session.workers)
        /\ \A k \in 1..Len(rt_session.workers) :
              /\ rt_loaded.workers[k].objective = rt_session.workers[k].objective
              /\ rt_loaded.workers[k].status = rt_session.workers[k].status
              /\ rt_loaded.workers[k].sources = rt_session.workers[k].sources
              /\ rt_loaded.workers[k].final_output =
                    rt_session.workers[k].final_output

\* C18 (sources of the result): the sources list of the result that research()
\* returns is the sorted, duplicate-free union of every worker's visited URLs.
C18_SourcesSortedUnion ==
    (outcome = "returned") =>
        sources \in SortedSetToList(AllSources(worker_results))

\* The sum of a sequence of numbers.
RECURSIVE SumSeq(_)
SumSeq(q) == IF q = <<>> THEN 0 ELSE Head(q) + SumSeq(Tail(q))

\* The sum of f(results[k]) over the worker results.
SumOver(results, f(_)) == SumSeq([k \in 1..Len(results) |-> f(results[k])])

\* What one worker's result reports as its cost and its token counts.
CostOf(w) == w.input_cost + w.output_cost
PromptOf(w) == w.prompt_tokens
CompletionOf(w) == w.completion_tokens

\* C19 (cost and token totals): in the metadata of every returned result,
\* cost.total_cost is the lead's cost plus the sum of the workers' costs, and
\* prompt_tokens and completion_tokens are the lead's counts plus the sums of
\* the workers' counts (amounts in exact arithmetic).
C19_TotalsAreLeadPlusWorkers ==
    (outcome = "returned") =>
        /\ metadata.cost.lead.total_cost =
              metadata.cost.lead.input_cost + metadata.cost.lead.output_cost
        /\ metadata.cost.lead.prompt_tokens = lead_prompt_tokens
        /\ metadata.cost.lead.completion_tokens = lead_completion_tokens
        /\ metadata.cost.total_cost =
              metadata.cost.lead.total_cost + SumOver(worker_results, CostOf)
        /\ metadata.prompt_tokens =
              lead_prompt_tokens + SumOver(worker_results, PromptOf)
        /\ metadata.completion_tokens =
              lead_completion_tokens + SumOver(worker_results, CompletionOf)

\* A returned run whose lead and two of whose workers have a cost.
C19_Witness ==
    /\ outcome = "returned"
    /\ lead_prompt_tokens > 0
    /\ Len(worker_results) >= 2
    /\ CostOf(worker_results[1]) > 0
    /\ CostOf(worker_results[2]) > 0
    /\ metadata.cost.total_cost > metadata.cost.lead.total_cost

\* The sub-tasks that the array J encodes.
TasksOf(j) == CHOOSE tasks \in PlanTaskLists : PlanJson(tasks) = j

\* C20 (the plan parser sees through wrapper and noise): for a JSON array J of
\* valid sub-tasks, the plan parser applied to J between markdown code fences,
\* to J followed by commentary, or to J whose string values hold braces or
\* brackets returns the sub-task list that it returns for J alone, which is
\* the list that J encodes.
C20_ParserSeesThroughNoise ==
    /\ (ps_alone # NotParsed) =>
          (ps_alone.ok /\ ps_alone.tasks = TasksOf(ps_json))
    /\ (ps_parsed # NotParsed /\ ps_alone # NotParsed) => ps_parsed = ps_alone

\* A fenced response with commentary after it was parsed into two sub-tasks,
\* one with unbalanced closers in its objective.
C20_Witness ==
    /\ ps_parsed.ok /\ ps_alone.ok
    /\ ps_raw[1] = Fence
    /\ ps_raw[Len(ps_raw)] = "}"
    /\ Len(ps_parsed.tasks) = 2
    /\ ps_parsed.tasks[1].objective = <<"close", "}", "]">>

\* C21 (compression below the budget passes the output through): the outputs
\* that WorkerAgent.execute returns in a run are all below the 2,000-token
\* budget, and the summary of a worker whose node came to _compress, which is
\* what synthesis is handed, is the worker's output itself.
C21_CompressPassesThrough ==
    \A i \in 1..MaxTasks :
        (wpc[i] = "returned" /\ ret[i].error \notin {"timeout", "node_error"}) =>
            ret[i].summary.verbatim

\* The index of the last AI message of the history, 0 when it holds none.
LastAi ==
    LET at == {k \in 1..Len(messages) : messages[k].role = "ai"}
    IN IF at = {} THEN 0 ELSE CHOOSE k \in at : \A j \in at : j <= k

\* The tool messages that follow the last AI message.
Observations ==
    SelectSeq(SubSeq(messages, LastAi + 1, Len(messages)),
              LAMBDA m : m.role = "tool")

\* The last response asked for tools (it held no answer) and none of its
\* calls is waiting to be executed.
ToolStepOver ==
    /\ LastAi # 0
    /\ wk \in {"thinking", "done"}
    /\ ~(wk = "done" /\ worker_result.kind = "answer")

\* C22 (a failing tool call fails nothing else): a tool call that raises or
\* whose arguments are malformed is answered by an observation in the
\* history like every other call, the calls after it are executed, and the
\* worker goes on: the only failure of a worker is that of its LLM call.
C22_ToolFailuresHandledPerCall ==
    /\ (wk = "done" /\ worker_result.kind = "failed") => llmFailed
    /\ ToolStepOver => Len(Observations) = messages[LastAi].n

\* C28 (one observation per call, in order): when a response without the
\* answer delimiter carries n >= 1 tool calls, the history holds, once its
\* calls are no longer waiting, exactly n observations right after the
\* response, the k-th tagged with the id of the k-th call; while calls are
\* waiting, it holds those of the calls before them, in that order.
C28_ObservationsFollowCalls ==
    LET n == messages[LastAi].n IN
    /\ (ToolStepOver /\ n >= 1) =>
          /\ Len(Observations) = n
          /\ \A k \in 1..n : messages[LastAi + k] = Msg("tool", messages[LastAi].it, k)
    /\ (wk = "acting") =>
          /\ Len(Observations) = n - pending
          /\ \A k \in 1..(n - pending) :
                messages[LastAi + k] = Msg("tool", messages[LastAi].it, k)

\* The history holds a directive to answer now.
Warned == \E k \in 1..Len(messages) : messages[k].role = "directive"

\* After a step that did not answer and left the usage above 90% of
\* max_tokens, the directive is the last message before the next LLM call.
DirectiveBeforeNextCall ==
    (wk = "thinking" /\ llmCalls >= 1 /\ 10 * tokens_used > 9 * max_tokens) =>
        messages[Len(messages)] = Msg("directive", iterations, 0)

\* C30 as stated (the budget guard is a soft deadline): when the usage
\* exceeds 90% of max_tokens after a step that did not answer, the directive
\* is added before the next LLM call, and the worker goes on, ending only by
\* answering or by reaching max_iterations.
C30_WarnedWorkerEndsByAnswerOrExhaustion ==
    /\ DirectiveBeforeNextCall
    /\ (wk = "done" /\ Warned) =>
          \/ worker_result.kind = "answer"
          \/ worker_result.kind = "incomplete" /\ iterations = max_iterations

\* C30 as amended: the directive is added before the next LLM call, and the
\* budget ends nothing: the warned worker ends by answering, by reaching
\* max_iterations, or by the exception of a later step.
C30_BudgetWarningAbortsNothing ==
    /\ DirectiveBeforeNextCall
    /\ (wk = "done" /\ Warned) =>
          \/ worker_result.kind = "answer"
          \/ worker_result.kind = "incomplete" /\ iterations = max_iterations
          \/ /\ worker_result.kind = "failed"
             /\ worker_result.error \in {"llm_error", "type_error"}
             /\ llmCalls >= 2

\* A worker that was warned after its first step, took its next step and
\* answered in it.
C30_Witness ==
    /\ wk = "done"
    /\ worker_result.kind = "answer"
    /\ messages[Len(messages) - 1].role = "directive"
    /\ llmCalls = 2
    /\ max_iterations = MaxIter

\* The history _step hands to self.llm.ainvoke, read after the call: all of
\* self.messages when the call raised, and all but the appended response
\* otherwise.
SentHistory(msgs, raised) ==
    IF raised THEN msgs ELSE SubSeq(msgs, 1, Len(msgs) - 1)

\* The smaller of two numbers.
Min(a, b) == IF a <= b THEN a ELSE b

\* C29: at every LLM call of a worker the history sent has at most 20
\* messages and starts with the system prompt, and it is the history before
\* the call with none but its oldest non-system messages dropped: the first
\* message is kept and the rest is the most recent end of the history.
C29_SentHistoryBounded ==
    [][(llmCalls' = llmCalls + 1) =>
         LET sent == SentHistory(messages', llmFailed')
             n == Len(sent)
         IN /\ n = Min(Len(messages), max_messages)
            /\ n <= max_messages
            /\ sent[1] = Msg("system", 0, 0)
            /\ sent[1] = messages[1]
            /\ SubSeq(sent, 2, n) =
                   SubSeq(messages, Len(messages) - n + 2, Len(messages))]_vars

\* An LLM call was made with a truncated history: the human message is gone,
\* the response was appended to the 20 messages sent, and its tool calls run.
C29_Witness ==
    /\ wk = "acting"
    /\ Len(messages) = max_messages + 1
    /\ messages[1].role = "system"
    /\ messages[2].role # "human"
    /\ messages[max_messages + 1] = Msg("ai", iterations, pending)


\* C23: once a start command given with no active session has finished, a
\* session at version 1 with one worker context per spawned worker is the
\* active session and is saved in the vault.
C23_StartYieldsSavedActiveSession ==
    lastOp.op = "start" =>
        /\ active_session # NoSession
        /\ active_session.version = 1
        /\ Len(active_session.workers) = Len(sub_tasks)
        /\ SessionExists(vault, active_session.session_id)
        /\ repl_state = [session_id |-> active_session.session_id, version |-> 1]


\* The names of the entries of a vault that hold a listable session, in the
\* order of the directory.
RECURSIVE ListableNames(_)
ListableNames(entries) ==
    IF entries = <<>> THEN <<>>
    ELSE LET rest == ListableNames(SubSeq(entries, 1, Len(entries) - 1))
             last == entries[Len(entries)]
         IN IF Listable(last) THEN Append(rest, last.name) ELSE rest

\* C24: list_sessions never raises on a vault with partially written
\* session directories, missing files or incomplete metadata: it skips
\* each such entry and returns all the other sessions.
C24_ListingSkipsBrokenEntries ==
    ls_listed # NotListed =>
        /\ ls_listed.kind = "returned"
        /\ ls_listed.sessions = ListableNames(ls_entries)

\* C25: after any sequence of set_active_session and clear_active_session
\* calls, has_active_session() is true exactly when the last call was a
\* set, get_active_session() is the session of the last set, and
\* load_last_session reads that session's id and version from the state
\* file, or nothing after a clear.
C25_ManagerFollowsLastCall ==
    sf_last # "none" =>
        /\ HasActiveSession <=> sf_last = "set"
        /\ sf_last = "set" =>
              /\ sf_active = sf_lastSet
              /\ LoadLastSession(sf_file) =
                    Loaded("pair", sf_lastSet.session_id, sf_lastSet.version)
        /\ sf_last = "clear" =>
              /\ sf_active = NoManagedSession
              /\ LoadLastSession(sf_file) = Loaded("none", "", 0)

\* The last call was a set, and the state file was read after it.
C25_Witness ==
    /\ sf_last = "set"
    /\ sf_active = [session_id |-> "session_b", version |-> 2, query |-> "q2"]
    /\ sf_loaded.of = sf_file
    /\ sf_loaded.result = Loaded("pair", "session_b", 2)

\* C26: load_last_session never raises; it returns None for a state file
\* that is missing, corrupted or without a session id, and otherwise the
\* session id with the version of the file, 1 when the file has none.
C26_LoadLastSessionNeverRaises ==
    LET file == sf_loaded.of
        result == sf_loaded.result
        has_id == /\ file.kind = "object"
                  /\ "last_session_id" \in file.keys
                  /\ file.session_id # ""
    IN result.kind # "not_called" =>
        /\ result.kind # "raised"
        /\ ~has_id => result.kind = "none"
        /\ has_id =>
              /\ result.kind = "pair"
              /\ result.session_id = file.session_id
              /\ result.version = IF "last_session_version" \in file.keys
                                  THEN file.version ELSE 1

\* C27: should_continue_interview routes to compile_interview once the
\* conversation holds max_turns questions and to answer_question while
\* turns remain (unless the WikiWriter has just said its thanks), and no
\* interview of the graph asks more than max_turns questions.
C27_InterviewEndsAtMaxTurns ==
    /\ (iv_route # "none" /\ iv_node = iv_route) =>
          IF Questions(iv_messages) >= iv_max_turns
          THEN iv_route = "compile_interview"
          ELSE iv_route = "answer_question" \/ iv_messages[Len(iv_messages)].thanks
    /\ iv_asked <= iv_max_turns


\* C31: a worker context with status completed has a non-empty final_output
\* and no error, and one with status failed has an error.
C31_ContextStatusInvariant ==
    /\ full_status = "completed" =>
          (full_final_output # "" /\ full_error = "none")
    /\ full_status = "failed" => full_error # "none"

\* The LLM calls of the worker that returned a response.
Responses == IF llmFailed THEN llmCalls - 1 ELSE llmCalls

\* C32: the recorded trace has one entry per think step, numbered 1, 2, ...
\* in the order of execution (the entry of a step is written at its end,
\* after its tool calls), and the entry of the step that answered has no
\* actions.
C32_TraceHasOneEntryPerStep ==
    /\ \A k \in 1..Len(react_iterations) : react_iterations[k].iteration = k
    /\ wk = "acting" => Len(react_iterations) = Responses - 1
    /\ wk \in {"thinking", "done"} => Len(react_iterations) = Responses
    /\ (wk = "done" /\ worker_result.kind = "answer") =>
          react_iterations[Len(react_iterations)].actions = 0


\* The callbacks self.progress has received for the worker of sub-task i.
CallbacksOf(i) == callbacks[sub_tasks[i].id]

\* The positions of the terminal callbacks among them.
Terminals(cb) == {k \in 1..Len(cb) : cb[k] \in {"complete", "error"}}

\* C33: for every spawned worker on_worker_start comes once and first, and
\* one terminal callback comes last: on_worker_complete for a worker that
\* succeeded, on_worker_error for one that failed or timed out.
C33_CallbacksBracketWorker ==
    \A i \in 1..MaxTasks :
        (i \in Workers /\ wpc[i] \in {"executing", "compressing", "returned"}) =>
            LET cb == CallbacksOf(i) IN
            /\ cb[1] = "start"
            /\ \A k \in 2..Len(cb) : cb[k] # "start"
            /\ Terminals(cb) \subseteq {Len(cb)}
            /\ wpc[i] = "returned" =>
                  cb[Len(cb)] = IF ret[i].error \in {"none", "max_iterations"}
                                THEN "complete" ELSE "error"


\* A step executed on behalf of the worker of sub-task i: a step of its node
\* task.
StepOfWorker(i) ==
    \/ WorkerStart(i)
    \/ WorkerExecuteReturns(i)
    \/ WorkerTimeout(i)
    \/ WorkerCompress(i)

\* C34: concurrently running workers share no mutable state but the
\* progress sink: a step of one worker writes neither the position, the
\* output or the result of another worker nor a variable of the
\* orchestrator that the steps of the other workers write as well.
C34_WorkersShareNoMutableState ==
    [][\A i \in 1..MaxTasks :
          StepOfWorker(i) =>
              /\ UNCHANGED leadUsage
              /\ \A j \in 1..MaxTasks \ {i} :
                    /\ wpc'[j] = wpc[j]
                    /\ content'[j] = content[j]
                    /\ ret'[j] = ret[j]]_vars

(***************************************************************************)
(*                   Properties of the progress sink                       *)
(***************************************************************************)

\* The threads that are inside a with self._lock block of a callback.
InsideCallback == {t \in Threads : sk_pc[t] \in {"write", "log", "trim", "release"}}

\* C35: callbacks arriving on several threads mutate the sink one at a time;
\* whenever no callback is inside its locked block, the tool_count of every
\* worker is the number of tool-use callbacks received for it since its start
\* callback and the activity log holds at most 10 entries; and every render
\* works on copies taken while no callback was inside its block, so that the
\* copies show the same.
C35_SinkConsistentUnderLock ==
    /\ Cardinality(InsideCallback) <= 1
    /\ InsideCallback = {} =>
          /\ \A id \in SinkIds : sk_workers[id].tool_count = sk_received[id]
          /\ Len(sk_log) <= ActivityLogLimit
    /\ \A t \in Threads : sk_snap[t].taken =>
          /\ sk_snap[t].locked
          /\ Len(sk_snap[t].log) <= ActivityLogLimit

\* Two tool-use callbacks for one started worker have been delivered, one by
\* each thread, the log was trimmed, and each thread's render has taken its
\* copies.
C35_Witness ==
    /\ \E id \in SinkIds : sk_received[id] = UsedBefore + 2
                           /\ sk_workers[id].tool_count = UsedBefore + 2
    /\ \A t \in Threads : sk_done[t] >= 1 /\ sk_snap[t].taken
    /\ Len(sk_log) = ActivityLogLimit
    /\ sk_log # EarlierLog


(***************************************************************************)
(*                 Properties of the identity of sub-tasks                 *)
(***************************************************************************)

\* C36: the sub-tasks the plan step hands to the fan-out have pairwise
\* different ids, so that no two workers have the same worker id and no two
\* entries of worker_results have the same task_id.
C36_SubTaskIdsUnique ==
    /\ \A i, j \in Workers : sub_tasks[i].id = sub_tasks[j].id => i = j
    /\ \A i, j \in 1..Len(worker_results) :
          worker_results[i].task_id = worker_results[j].task_id => i = j

(***************************************************************************)
(*              Properties of an answer that carries tool calls            *)
(***************************************************************************)

\* C37: once a response held the answer delimiter, with or without tool
\* invocations, the worker is Answered; the response is the last message of
\* the history, so no observation was appended after it, none of its tool
\* calls is pending or was executed, and the step is recorded without action.
C37_AnswerWithToolCallsRunsNoTool ==
    answerEmitted =>
        /\ wk = "done" /\ worker_result.kind = "answer"
        /\ pending = 0
        /\ messages[Len(messages)] = Msg("ai", iterations, messages[Len(messages)].n)
        /\ react_iterations[Len(react_iterations)] = Iteration(iterations, 0)

\* A worker has answered in its second step with a response that carried
\* tool invocations, after a first step that executed its tool calls.
C37_Witness ==
    /\ answerEmitted /\ wk = "done" /\ worker_result.kind = "answer"
    /\ iterations = 2
    /\ messages[Len(messages)].role = "ai" /\ messages[Len(messages)].n = MaxToolCalls
    /\ react_iterations[1].actions > 0

(***************************************************************************)
(*             Properties of the tool observations of a history            *)
(***************************************************************************)

\* The tool observations of a history that no AI message of their iteration
\* precedes.
Orphans(h) ==
    {p \in 1..Len(h) :
        /\ h[p].role = "tool"
        /\ ~ \E q \in 1..(p - 1) : h[q].role = "ai" /\ h[q].it = h[p].it}

\* C38: in the history sent with every LLM call of a worker, truncated or
\* not, each tool observation is preceded by the AI message that issued its
\* tool call.
C38_NoOrphanedObservation ==
    [][(llmCalls' = llmCalls + 1) =>
          Orphans(SentHistory(messages', llmFailed')) = {}]_vars

(***************************************************************************)
(*               Properties of the commands of the REPL                    *)
(***************************************************************************)

\* The case of a command to which the REPL answers with a message only:
\* start with an active session, continue or expand without one, and expand
\* naming a worker that is not in the active session.
CommandRejected(op, arg, session) ==
    \/ op = "start" /\ session # NoSession
    \/ op \in {"continue", "expand"} /\ session = NoSession
    \/ op = "expand" /\ session # NoSession /\ ~FindTargetWorker(session, arg)

\* C39: a command of one of these cases runs no research and leaves the
\* active session, the state file of the REPL and the sessions of the vault
\* as they were.
C39_RejectedCommandChangesNothing ==
    [][(lastOp' # lastOp /\ CommandRejected(lastOp'.op, lastOp'.arg, active_session)) =>
          /\ ~lastOp'.ran
          /\ UNCHANGED <<vault, active_session, repl_state, produced>>]_vars

\* A start was given while version 2 of a session was active, and the
\* session, the state file and the vault still show that version.
C39_Witness ==
    /\ lastOp = Returned("start", "none", active_session)
    /\ active_session.version = 2
    /\ repl_state = [session_id |-> active_session.session_id, version |-> 2]
    /\ Len(produced[active_session.session_id]) = 1

\* C40: an expand on the active session whose target identifier is the
\* worker_id or the task_id of one of its workers goes on to the research of
\* the expansion.
C40_ExpandAcceptsWhatLookupAccepts ==
    (/\ lastOp.op = "expand"
     /\ lastOp.object # NoSession
     /\ FindTargetWorker(lastOp.object, lastOp.arg)) => lastOp.ran

====
